---- MODULE Spec2Model ----
(***************************************************************************)
(* Race state store and reducers of rsw (src/src/rsw/state).               *)
(*                                                                         *)
(* Python objects that the code shares by reference (the drivers dict and  *)
(* the flags / recent_pits / recent_messages lists of a RaceState) live in *)
(* a heap, so that copying and aliasing are visible.  A RaceState is a     *)
(* record whose container fields are heap references; View dereferences    *)
(* it.  DriverState fields that no reducer writes (model predictions,      *)
(* strategy output, telemetry) are left out of the record.                 *)
(***************************************************************************)
EXTENDS Integers, Sequences, FiniteSets, TLC

VARIABLES
    heap,           \* Python heap: sequence of container objects, a reference is an index
    store_state,    \* RaceStateStore._state
    history,        \* RaceStateStore._history
    update_count,   \* RaceStateStore._update_count
    track_history,  \* RaceStateStore._track_history (constructor argument)
    subscribers,    \* RaceStateStore._subscribers
    clock,          \* what datetime.now() returns
    pc,             \* per task: position inside apply() / reset()
    op,             \* per task: the call in progress
    iter,           \* per task: index of the list iterator of _notify_subscribers
    ret,            \* per task: value returned by the last completed call
    hung,           \* per task: the awaited callback never completes
    outdated,       \* history variable: the last batch applied carried a lap number below the one held
    snap,           \* the RaceState object a reader obtained from get()
    snap_view,      \* history variable: contents of snap when get() returned
    log,            \* history variable: calls in the order they entered the critical section
    delivered,      \* history variable: per callback, the versions of the state it was called with
    round,          \* history variable: per task, bookkeeping of its notification round
    sim,            \* SimulationService: _running, _task, the loop tasks and the callers waiting in stop()
    strat,          \* the strategy call in progress: its arguments and its result
    deg,            \* ModelManager: the per-driver degradation models, and the calls made
    mc,             \* the simulate_race call in progress: arguments, random state, positions
    wire,           \* the broadcasts: the state to_dict reads and the payload last handed over
    san,            \* the sanitize_for_json call in progress: its argument and its result
    estimator       \* an RLSEstimator on its own: theta, P and the counters, and the signal fed to it

vars == <<estimator, heap, store_state, history, update_count, track_history, deg, mc, wire, san, subscribers,
          clock, pc, op, iter, ret, hung, outdated, snap, snap_view, log,
          delivered, round, sim, strat>>

storeVars == <<subscribers, pc, op, iter, ret, hung, log, delivered, round>>

-----------------------------------------------------------------------------
(* Bounds of the model                                                     *)

MaxLap == 2         \* lap numbers in records: 1..MaxLap
MaxTime == 1        \* clock values and record timestamps: 0..MaxTime
MaxUpdates == 2     \* cap on RaceStateStore._update_count
MaxRecs == 1        \* records carried by one UpdateBatch
MaxMsgs == 3        \* race-control messages applied in a run of SpecControl
MaxEvents == 5      \* laps whose events are applied in a run of SpecEvents
MaxTasks == 3       \* loop tasks created in a run of SpecSim
MaxWaiters == 2     \* calls of start() / stop() waiting in stop() at one time
MaxCurrentLap == 3  \* largest current_lap of a strategy call
MaxTotalLaps == 15  \* largest total_laps of a strategy call

-----------------------------------------------------------------------------
(* Python values                                                           *)

\* None of an optional number (every real lap, time or timestamp is >= 0)
None == -1
\* None of an optional string
NoneStr == "None"

\* bool(x) of an optional number: None and 0 / 0.0 are falsy
Truthy(x) == x # None /\ x # 0

Max(a, b) == IF a >= b THEN a ELSE b
Min(a, b) == IF a <= b THEN a ELSE b

Drivers == {1, 2}

EmptyDict == [k \in {} |-> 0]

\* dict.get / dict[k] = v
Has(d, k) == k \in DOMAIN d
Put(d, k, v) == [x \in (DOMAIN d) \cup {k} |-> IF x = k THEN v ELSE d[x]]

-----------------------------------------------------------------------------
(* Heap of container objects                                               *)

DictObj(d) == [d |-> d, l |-> <<>>]
ListObj(l) == [d |-> EmptyDict, l |-> l]

\* a new object; r is its reference
Alloc(h, obj) == [h |-> Append(h, obj), r |-> Len(h) + 1]

\* a shallow copy that shares the object instead of copying it
AliasCopy(h, r) == [h |-> h, r |-> r]

\* {**d} and list(l): a new container with the same elements
ShallowCopy(h, r) == Alloc(h, h[r])

\* l.append(x), in place
ListAppend(h, r, x) == [h EXCEPT ![r].l = Append(@, x)]

\* d[k] = v, in place
DictSet(h, r, k, v) == [h EXCEPT ![r].d = Put(@, k, v)]

-----------------------------------------------------------------------------
(* schemas.py                                                              *)

\* DriverState(driver_number=n): field defaults
DriverState(n) ==
    [driver_number |-> n, name_acronym |-> "", full_name |-> "", team_name |-> "",
     team_colour |-> "FFFFFF", position |-> 0, gap_to_leader |-> None,
     gap_to_ahead |-> None, current_lap |-> 0, last_lap_time |-> None,
     best_lap_time |-> None, sector_1 |-> None, sector_2 |-> None,
     sector_3 |-> None, stint_number |-> 1, compound |-> NoneStr,
     lap_in_stint |-> 0, stint_start_lap |-> 1, tyre_age |-> 0,
     is_pit_out_lap |-> FALSE, last_update |-> None]

\* RaceState(session_key=k, total_laps=t) with fresh empty containers
NewRaceState(h, k, t, now) ==
    LET a == Alloc(h, DictObj(EmptyDict))
        b == Alloc(a.h, ListObj(<<>>))
        c == Alloc(b.h, ListObj(<<>>))
        e == Alloc(c.h, ListObj(<<>>))
    IN  [h |-> e.h,
         s |-> [session_key |-> k, current_lap |-> 0, total_laps |-> t,
                timestamp |-> now, drivers |-> a.r, flags |-> b.r,
                safety_car |-> FALSE, virtual_safety_car |-> FALSE,
                red_flag |-> FALSE, recent_pits |-> c.r,
                recent_messages |-> e.r]]

\* the contents of a RaceState: its containers dereferenced
View(h, s) ==
    [s EXCEPT !.drivers = h[s.drivers].d, !.flags = h[s.flags].l,
              !.recent_pits = h[s.recent_pits].l,
              !.recent_messages = h[s.recent_messages].l]

-----------------------------------------------------------------------------
(* Strings and timestamps                                                  *)

LowerChars == <<"a","b","c","d","e","f","g","h","i","j","k","l","m",
                "n","o","p","q","r","s","t","u","v","w","x","y","z">>
UpperChars == <<"A","B","C","D","E","F","G","H","I","J","K","L","M",
                "N","O","P","Q","R","S","T","U","V","W","X","Y","Z">>

\* str.upper() on a string given as its sequence of characters
upper(s) ==
    [i \in 1..Len(s) |->
        IF \E j \in 1..26 : LowerChars[j] = s[i]
        THEN UpperChars[CHOOSE j \in 1..26 : LowerChars[j] = s[i]]
        ELSE s[i]]

\* sub in s
Contains(s, sub) ==
    \E i \in 0..(Len(s) - Len(sub)) : SubSeq(s, i + 1, i + Len(sub)) = sub

\* datetime.isoformat(): a fixed-width digit string, most significant digit first
isoformat(t) == <<t \div 10, t % 10>>

\* a < b on strings of equal alphabet (lexicographic)
RECURSIVE StrLess(_, _)
StrLess(a, b) ==
    IF b = <<>> THEN FALSE
    ELSE IF a = <<>> THEN TRUE
    ELSE IF Head(a) # Head(b) THEN Head(a) < Head(b)
    ELSE StrLess(Tail(a), Tail(b))

\* one insertion of sorted(..., reverse=True): x goes behind every element
\* whose key is not smaller, so equal keys keep their original order
RECURSIVE InsertDesc(_, _)
InsertDesc(acc, x) ==
    IF acc = <<>> THEN <<x>>
    ELSE IF StrLess(Head(acc).timestamp, x.timestamp) THEN <<x>> \o acc
    ELSE <<Head(acc)>> \o InsertDesc(Tail(acc), x)

\* sorted(l, key=lambda p: p["timestamp"], reverse=True)
RECURSIVE SortedDesc(_)
SortedDesc(l) ==
    IF l = <<>> THEN <<>>
    ELSE InsertDesc(SortedDesc(SubSeq(l, 1, Len(l) - 1)), l[Len(l)])

\* a truncation that keeps the other end of the list
TakeOldest(l, n) == SubSeq(l, Len(l) - Min(Len(l), n) + 1, Len(l))

\* l[:n]
Take(l, n) == SubSeq(l, 1, Min(Len(l), n))

\* [f for f in l if f != x]
RECURSIVE Without(_, _)
Without(l, x) ==
    IF l = <<>> THEN <<>>
    ELSE IF Head(l) = x THEN Without(Tail(l), x)
    ELSE <<Head(l)>> \o Without(Tail(l), x)

\* x in l
InList(l, x) == \E i \in 1..Len(l) : l[i] = x

-----------------------------------------------------------------------------
(* reducers.py.  Every reducer takes the heap and returns the new heap h   *)
(* and the new RaceState s; now is the value of datetime.now().            *)

RECURSIVE drivers_loop(_, _, _, _, _)
drivers_loop(h, nd, drivers, i, now) ==
    IF i > Len(drivers) THEN h
    ELSE LET info == drivers[i]
             n == info.driver_number
             d == h[nd].d
             new == IF Has(d, n)
                    THEN [d[n] EXCEPT !.name_acronym = info.name_acronym,
                                      !.full_name = info.full_name,
                                      !.team_name = info.team_name,
                                      !.team_colour = info.team_colour,
                                      !.last_update = now]
                    ELSE [DriverState(n) EXCEPT
                                      !.name_acronym = info.name_acronym,
                                      !.full_name = info.full_name,
                                      !.team_name = info.team_name,
                                      !.team_colour = info.team_colour,
                                      !.last_update = now]
         IN  drivers_loop(DictSet(h, nd, n, new), nd, drivers, i + 1, now)

apply_drivers(h, state, drivers, now) ==
    LET c == ShallowCopy(h, state.drivers)
    IN  [h |-> drivers_loop(c.h, c.r, drivers, 1, now),
         s |-> [state EXCEPT !.drivers = c.r]]

\* the best_lap_time expression of apply_laps
best_lap(best, dur) ==
    IF Truthy(best) /\ Truthy(dur) THEN Min(best, dur)
    ELSE IF Truthy(dur) THEN dur ELSE best

\* apply_laps without its guard: every lap record is applied
lap_accepted_always(lap, driver) == TRUE

\* the lap record is applied to this driver
lap_accepted(lap, driver) == lap.lap_number >= driver.current_lap

\* the update of one driver by one accepted lap record
lap_update(driver, lap, now) ==
    [driver EXCEPT
        !.current_lap = lap.lap_number,
        !.last_lap_time = lap.lap_duration,
        !.best_lap_time = best_lap(driver.best_lap_time, lap.lap_duration),
        !.sector_1 = lap.sector_1,
        !.sector_2 = lap.sector_2,
        !.sector_3 = lap.sector_3,
        !.is_pit_out_lap = lap.is_pit_out_lap,
        !.lap_in_stint = lap.lap_number - driver.stint_start_lap + 1,
        !.tyre_age = driver.tyre_age
                       + (IF lap.lap_number > driver.current_lap THEN 1 ELSE 0),
        !.last_update = IF lap.timestamp # None THEN lap.timestamp ELSE now]

\* the loop of apply_laps; acc = [h, max_lap]
RECURSIVE laps_loop(_, _, _, _, _)
laps_loop(acc, nd, laps, i, now) ==
    IF i > Len(laps) THEN acc
    ELSE LET lap == laps[i]
             n == lap.driver_number
             d == acc.h[nd].d
             driver == IF Has(d, n) THEN d[n] ELSE DriverState(n)
         IN  IF lap_accepted(lap, driver)
             THEN laps_loop([h |-> DictSet(acc.h, nd, n, lap_update(driver, lap, now)),
                             max_lap |-> Max(acc.max_lap, lap.lap_number)],
                            nd, laps, i + 1, now)
             ELSE laps_loop(acc, nd, laps, i + 1, now)

apply_laps(h, state, laps, now) ==
    LET c == ShallowCopy(h, state.drivers)
        r == laps_loop([h |-> c.h, max_lap |-> state.current_lap], c.r, laps, 1, now)
    IN  [h |-> r.h,
         s |-> [state EXCEPT !.drivers = c.r, !.current_lap = r.max_lap,
                             !.timestamp = now]]

RECURSIVE positions_loop(_, _, _, _)
positions_loop(h, nd, positions, i) ==
    IF i > Len(positions) THEN h
    ELSE LET pos == positions[i]
             n == pos.driver_number
             d == h[nd].d
             new == IF Has(d, n)
                    THEN [d[n] EXCEPT !.position = pos.position,
                                      !.last_update = pos.timestamp]
                    ELSE [DriverState(n) EXCEPT !.position = pos.position,
                                                !.last_update = pos.timestamp]
         IN  positions_loop(DictSet(h, nd, n, new), nd, positions, i + 1)

apply_positions(h, state, positions) ==
    LET c == ShallowCopy(h, state.drivers)
    IN  [h |-> positions_loop(c.h, c.r, positions, 1),
         s |-> [state EXCEPT !.drivers = c.r]]

RECURSIVE intervals_loop(_, _, _, _)
intervals_loop(h, nd, intervals, i) ==
    IF i > Len(intervals) THEN h
    ELSE LET iv == intervals[i]
             n == iv.driver_number
             d == h[nd].d
         IN  IF Has(d, n)
             THEN intervals_loop(
                      DictSet(h, nd, n,
                              [d[n] EXCEPT !.gap_to_leader = iv.gap_to_leader,
                                           !.gap_to_ahead = iv.interval,
                                           !.last_update = iv.timestamp]),
                      nd, intervals, i + 1)
             ELSE intervals_loop(h, nd, intervals, i + 1)

apply_intervals(h, state, intervals) ==
    LET c == ShallowCopy(h, state.drivers)
    IN  [h |-> intervals_loop(c.h, c.r, intervals, 1),
         s |-> [state EXCEPT !.drivers = c.r]]

\* driver_stints of apply_stints: per driver the first record with the
\* highest stint_number of the list
RECURSIVE latest_stints(_, _, _)
latest_stints(ds, stints, i) ==
    IF i > Len(stints) THEN ds
    ELSE LET st == stints[i]
             n == st.driver_number
         IN  IF ~Has(ds, n) \/ st.stint_number > ds[n].stint_number
             THEN latest_stints(Put(ds, n, st), stints, i + 1)
             ELSE latest_stints(ds, stints, i + 1)

\* the update of one driver by the stint record chosen for it
stint_update(driver, stint) ==
    [driver EXCEPT
        !.stint_number = stint.stint_number,
        !.compound = stint.compound,
        !.stint_start_lap = stint.lap_start,
        !.tyre_age = stint.tyre_age_at_start
                       + Max(0, driver.current_lap - stint.lap_start),
        !.lap_in_stint = Max(1, driver.current_lap - stint.lap_start + 1)]

apply_stints(h, state, stints) ==
    LET c == ShallowCopy(h, state.drivers)
        ds == latest_stints(EmptyDict, stints, 1)
        d == c.h[c.r].d
    IN  [h |-> [c.h EXCEPT ![c.r].d =
                    [n \in DOMAIN d |->
                        IF Has(ds, n) THEN stint_update(d[n], ds[n]) ELSE d[n]]],
         s |-> [state EXCEPT !.drivers = c.r]]

\* recent_pits and recent_messages keep this many entries
RecentPitsKept == 10
RecentMessagesKept == 20

\* the pit is already recorded
pit_recorded(l, pit) ==
    \E i \in 1..Len(l) : /\ l[i].driver_number = pit.driver_number
                         /\ l[i].lap_number = pit.lap_number

RECURSIVE pits_loop(_, _, _, _)
pits_loop(h, rp, pits, i) ==
    IF i > Len(pits) THEN h
    ELSE LET pit == pits[i]
             pit_record == [driver_number |-> pit.driver_number,
                            lap_number |-> pit.lap_number,
                            pit_duration |-> pit.pit_duration,
                            timestamp |-> isoformat(pit.timestamp)]
         IN  IF ~pit_recorded(h[rp].l, pit)
             THEN pits_loop(ListAppend(h, rp, pit_record), rp, pits, i + 1)
             ELSE pits_loop(h, rp, pits, i + 1)

apply_pits(h, state, pits) ==
    LET c == ShallowCopy(h, state.recent_pits)
        h1 == pits_loop(c.h, c.r, pits, 1)
        kept == Alloc(h1, ListObj(Take(SortedDesc(h1[c.r].l), RecentPitsKept)))
    IN  [h |-> kept.h, s |-> [state EXCEPT !.recent_pits = kept.r]]

\* the string constants of apply_race_control, as character sequences
STR_DEPLOYED == <<"D","E","P","L","O","Y","E","D">>
STR_ENDING == <<"E","N","D","I","N","G">>
STR_IN == <<"I","N">>
STR_VSC == <<"V","S","C">>
STR_VIRTUAL_SAFETY_CAR == <<"V","I","R","T","U","A","L"," ","S","A","F","E","T","Y"," ","C","A","R">>

\* a RED message that is added to the flags shown instead of replacing them
rc_flag_red_added(acc, msg) ==
    IF msg.flag = "RED"
    THEN [acc EXCEPT !.h = ListAppend(acc.h, acc.nf, "RED"), !.red = TRUE]
    ELSE IF msg.flag \in {"GREEN", "CLEAR"}
    THEN [acc EXCEPT !.h = [acc.h EXCEPT ![acc.nf].l = <<"GREEN">>],
                     !.sc = FALSE, !.vsc = FALSE, !.red = FALSE]
    ELSE acc

\* "if msg.flag:" of one message; acc = [h, nf, sc, vsc, red, rm]
rc_flag(acc, msg) ==
    IF msg.flag = NoneStr \/ msg.flag = "" THEN acc
    ELSE IF msg.flag \in {"GREEN", "CLEAR"}
    THEN LET a == Alloc(acc.h, ListObj(<<"GREEN">>))
         IN  [acc EXCEPT !.h = a.h, !.nf = a.r, !.sc = FALSE, !.vsc = FALSE,
                         !.red = FALSE]
    ELSE IF msg.flag = "RED"
    THEN LET a == Alloc(acc.h, ListObj(<<"RED">>))
         IN  [acc EXCEPT !.h = a.h, !.nf = a.r, !.red = TRUE]
    ELSE IF msg.flag \in {"YELLOW", "DOUBLE YELLOW"}
             /\ ~InList(acc.h[acc.nf].l, "YELLOW")
    THEN [acc EXCEPT !.h = ListAppend(acc.h, acc.nf, "YELLOW")]
    ELSE acc

\* "if msg.category == 'SafetyCar':" of one message
rc_safety_car(acc, msg) ==
    IF msg.category # "SafetyCar" THEN acc
    ELSE IF Contains(upper(msg.message), STR_DEPLOYED)
    THEN [acc EXCEPT !.sc = TRUE,
                     !.h = IF InList(acc.h[acc.nf].l, "SAFETY CAR") THEN acc.h
                           ELSE ListAppend(acc.h, acc.nf, "SAFETY CAR")]
    ELSE IF Contains(upper(msg.message), STR_ENDING)
             \/ Contains(upper(msg.message), STR_IN)
    THEN LET a == Alloc(acc.h, ListObj(Without(acc.h[acc.nf].l, "SAFETY CAR")))
         IN  [acc EXCEPT !.sc = FALSE, !.h = a.h, !.nf = a.r]
    ELSE acc

\* "if 'VSC' in ... or 'VIRTUAL SAFETY CAR' in ...:" of one message
rc_vsc(acc, msg) ==
    IF ~(Contains(upper(msg.message), STR_VSC)
            \/ Contains(upper(msg.message), STR_VIRTUAL_SAFETY_CAR))
    THEN acc
    ELSE IF Contains(upper(msg.message), STR_DEPLOYED)
    THEN [acc EXCEPT !.vsc = TRUE,
                     !.h = IF InList(acc.h[acc.nf].l, "VSC") THEN acc.h
                           ELSE ListAppend(acc.h, acc.nf, "VSC")]
    ELSE IF Contains(upper(msg.message), STR_ENDING)
    THEN LET a == Alloc(acc.h, ListObj(Without(acc.h[acc.nf].l, "VSC")))
         IN  [acc EXCEPT !.vsc = FALSE, !.h = a.h, !.nf = a.r]
    ELSE acc

RECURSIVE rc_loop(_, _, _)
rc_loop(acc, messages, i) ==
    IF i > Len(messages) THEN acc
    ELSE LET msg == messages[i]
             a == rc_vsc(rc_safety_car(rc_flag(acc, msg), msg), msg)
             msg_record == [category |-> msg.category, flag |-> msg.flag,
                            message |-> msg.message,
                            lap_number |-> msg.lap_number,
                            timestamp |-> isoformat(msg.timestamp)]
         IN  rc_loop([a EXCEPT !.h = ListAppend(a.h, a.rm, msg_record)],
                     messages, i + 1)

apply_race_control(h, state, messages) ==
    LET f == ShallowCopy(h, state.flags)
        m == ShallowCopy(f.h, state.recent_messages)
        a == rc_loop([h |-> m.h, nf |-> f.r, sc |-> state.safety_car,
                      vsc |-> state.virtual_safety_car, red |-> state.red_flag,
                      rm |-> m.r], messages, 1)
        kept == Alloc(a.h, ListObj(Take(SortedDesc(a.h[a.rm].l), RecentMessagesKept)))
    IN  [h |-> kept.h,
         s |-> [state EXCEPT !.flags = a.nf, !.safety_car = a.sc,
                             !.virtual_safety_car = a.vsc, !.red_flag = a.red,
                             !.recent_messages = kept.r]]

\* UpdateBatch(...): a list that is None is the empty list here, both are
\* falsy in apply_update_batch, the only reader
UpdateBatch(current_lap, timestamp, drivers, laps, positions, intervals, stints, pits, race_control) ==
    [current_lap |-> current_lap, timestamp |-> timestamp, drivers |-> drivers,
     laps |-> laps, positions |-> positions, intervals |-> intervals,
     stints |-> stints, pits |-> pits, race_control |-> race_control]

\* step k of apply_update_batch on hs = [h, s]: "if batch.X: new_state =
\* apply_X(new_state, batch.X)" for the seven lists in the order of the
\* code, then "if batch.current_lap:"
batch_step(hs, batch, now, k) ==
    CASE k = 1 -> IF batch.drivers # <<>>
                  THEN apply_drivers(hs.h, hs.s, batch.drivers, now) ELSE hs
      [] k = 2 -> IF batch.positions # <<>>
                  THEN apply_positions(hs.h, hs.s, batch.positions) ELSE hs
      [] k = 3 -> IF batch.intervals # <<>>
                  THEN apply_intervals(hs.h, hs.s, batch.intervals) ELSE hs
      [] k = 4 -> IF batch.stints # <<>>
                  THEN apply_stints(hs.h, hs.s, batch.stints) ELSE hs
      [] k = 5 -> IF batch.laps # <<>>
                  THEN apply_laps(hs.h, hs.s, batch.laps, now) ELSE hs
      [] k = 6 -> IF batch.pits # <<>>
                  THEN apply_pits(hs.h, hs.s, batch.pits) ELSE hs
      [] k = 7 -> IF batch.race_control # <<>>
                  THEN apply_race_control(hs.h, hs.s, batch.race_control) ELSE hs
      [] k = 8 -> IF Truthy(batch.current_lap)
                  THEN [hs EXCEPT !.s.current_lap = Max(@, batch.current_lap),
                                  !.s.timestamp = batch.timestamp]
                  ELSE hs

\* steps k..8 of apply_update_batch
RECURSIVE batch_steps(_, _, _, _)
batch_steps(hs, batch, now, k) ==
    IF k > 8 THEN hs
    ELSE batch_steps(batch_step(hs, batch, now, k), batch, now, k + 1)

apply_update_batch(h, state, batch, now) ==
    batch_steps([h |-> h, s |-> state], batch, now, 1)

-----------------------------------------------------------------------------
(* store.py: the state of RaceStateStore                                   *)

\* default of the constructor argument max_history
max_history == 100

\* the container references of a RaceState
Refs(s) == <<s.drivers, s.flags, s.recent_pits, s.recent_messages>>

RECURSIVE RefsOfAll(_)
RefsOfAll(states) ==
    IF states = <<>> THEN <<>>
    ELSE Refs(Head(states)) \o RefsOfAll(Tail(states))

RECURSIVE Dedupe(_, _)
Dedupe(seq, acc) ==
    IF seq = <<>> THEN acc
    ELSE IF InList(acc, Head(seq)) THEN Dedupe(Tail(seq), acc)
    ELSE Dedupe(Tail(seq), Append(acc, Head(seq)))

IndexOf(order, r) == CHOOSE i \in 1..Len(order) : order[i] = r

Renamed(s, order) ==
    [s EXCEPT !.drivers = IndexOf(order, @), !.flags = IndexOf(order, @),
              !.recent_pits = IndexOf(order, @),
              !.recent_messages = IndexOf(order, @)]

\* The objects still referenced by the store, its history or the reader
\* become the new heap (what Python's garbage collector leaves), numbered
\* in the order the references are met.
Collect(hs, hist, sn) ==
    LET order == Dedupe(Refs(hs.s) \o Refs(sn) \o RefsOfAll(hist), <<>>)
    IN  [heap |-> [i \in 1..Len(order) |-> hs.h[order[i]]],
         state |-> Renamed(hs.s, order),
         snap |-> Renamed(sn, order),
         history |-> [i \in 1..Len(hist) |-> Renamed(hist[i], order)]]

\* l[-n:]
LastN(l, n) == IF Len(l) > n THEN SubSeq(l, Len(l) - n + 1, Len(l)) ELSE l

\* a critical section that drops the batch: the history is kept, the
\* state is not replaced
ApplyLockedLost(batch, now) ==
    LET hist == IF track_history
                THEN LastN(Append(history, store_state), max_history)
                ELSE history
    IN  Collect([h |-> heap, s |-> store_state], hist, snap)

\* the body of "async with self._lock" in apply(): the value of each field
ApplyLockedResult(batch, now) ==
    LET hist == IF track_history
                THEN LastN(Append(history, store_state), max_history)
                ELSE history
    IN  Collect(apply_update_batch(heap, store_state, batch, now), hist, snap)

ApplyLocked(batch, now) ==
    \E c \in {ApplyLockedResult(batch, now)} :
        /\ heap' = c.heap
        /\ store_state' = c.state
        /\ snap' = c.snap
        /\ history' = c.history
        /\ update_count' = update_count + 1

\* get(): the reader keeps the object the store holds
Get ==
    /\ snap' = store_state
    /\ snap_view' = View(heap, store_state)
    /\ snap # store_state
    /\ UNCHANGED <<estimator, heap, store_state, history, update_count, track_history, deg, mc, wire, san, sim, strat,
                   clock, outdated, storeVars>>

-----------------------------------------------------------------------------
(* Inputs                                                                  *)

\* all sequences over S of length at most n
RECURSIVE SeqUpTo(_, _)
SeqUpTo(S, n) ==
    IF n = 0 THEN {<<>>}
    ELSE LET shorter == SeqUpTo(S, n - 1)
         IN  shorter \cup {Append(q, x) : q \in {p \in shorter : Len(p) = n - 1},
                                          x \in S}

NoBatch == UpdateBatch(None, 0, <<>>, <<>>, <<>>, <<>>, <<>>, <<>>, <<>>)

LapData(n, lap, dur) ==
    [driver_number |-> n, lap_number |-> lap, lap_duration |-> dur,
     sector_1 |-> None, sector_2 |-> None, sector_3 |-> None,
     is_pit_out_lap |-> FALSE, timestamp |-> None]

\* stint k of a driver: a fresh set of SOFT, then used HARD
StintData(n, k, start) ==
    [driver_number |-> n, stint_number |-> k,
     compound |-> IF k = 1 THEN "SOFT" ELSE "HARD", lap_start |-> start,
     tyre_age_at_start |-> k - 1]

\* the driver the lap and stint records are about; driver 2 is a bystander
RecDrivers == {1}

LapRecs == {LapData(n, lap, 90) : n \in RecDrivers, lap \in 1..MaxLap}
StintRecs == {StintData(n, k, start) :
                n \in RecDrivers, k \in 1..2, start \in 1..MaxLap}

\* the lists of lap and stint records one batch carries
LapLists == SeqUpTo(LapRecs, MaxRecs)
StintLists == SeqUpTo(StintRecs, MaxRecs)

\* batch.current_lap
LapMarks == {None} \cup 1..MaxLap

\* the lap and stint batches: at most MaxRecs records in all; the
\* timestamp is filled in when the batch is built
LapBatches ==
    {b \in {UpdateBatch(cl, 0, <<>>, laps, <<>>, <<>>, stints, <<>>, <<>>) :
                cl \in LapMarks, laps \in LapLists, stints \in StintLists} :
        Len(b.laps) + Len(b.stints) <= MaxRecs}

-----------------------------------------------------------------------------
(* Spec: one writer applies lap and stint batches, nobody subscribes       *)

\* RaceStateStore() followed by reset(RaceState(session_key=1, drivers=...))
InitialState(known, total) ==
    LET n == NewRaceState(<<>>, 1, total, 0)
    IN  [h |-> [n.h EXCEPT ![n.s.drivers].d = [k \in known |-> DriverState(k)]],
         s |-> n.s]

InitStore(known, total) ==
    LET n == InitialState(known, total)
    IN  /\ heap = n.h
        /\ store_state = n.s
        /\ snap = n.s
        /\ snap_view = View(n.h, n.s)
        /\ history = <<>>
        /\ update_count = 0
        /\ clock = 0

\* SimulationService(): no task, not running.  written is the lap whose
\* telemetry batch, degradation results and strategy results the store holds
SimulationService ==
    [running |-> FALSE, task |-> None, loops |-> <<>>, waiters |-> <<>>,
     written |-> [telemetry |-> 0, degradation |-> 0, strategy |-> 0]]

\* no strategy call in progress
NoCall == [fn |-> "none"]

\* no estimator outside a degradation model has been constructed
NoEstimator == [n_updates |-> None]

\* ModelManager(): no driver has a model; calls is the history of the calls made
ModelManager == [models |-> <<>>, calls |-> <<>>]

InitIdle ==
    /\ subscribers = <<>>
    /\ pc = <<>>
    /\ op = <<>>
    /\ iter = <<>>
    /\ ret = <<>>
    /\ hung = <<>>
    /\ log = <<>>
    /\ delivered = <<>>
    /\ round = <<>>
    /\ sim = SimulationService

\* the race distance the track configuration gives is one lap short of the
\* laps the data provider reports
Init ==
    /\ track_history = FALSE
    /\ outdated = FALSE
    /\ \E known \in {{2}, Drivers} : InitStore(known, MaxLap - 1)
    /\ InitIdle
    /\ strat = NoCall
    /\ deg = ModelManager
    /\ mc = NoCall
    /\ wire = <<>>
    /\ san = NoCall
    /\ estimator = NoEstimator

\* the batch carries a lap record below the current_lap of a driver the
\* state holds, or a current_lap below the state's
Outdated(view, b) ==
    \/ \E i \in 1..Len(b.laps) :
          /\ Has(view.drivers, b.laps[i].driver_number)
          /\ b.laps[i].lap_number < view.drivers[b.laps[i].driver_number].current_lap
    \/ Truthy(b.current_lap) /\ b.current_lap < view.current_lap

\* await store.apply(batch) by the only writer, with no subscriber: the
\* call runs from the lock to the return without suspending
Apply ==
    \E b \in LapBatches :
        /\ update_count < MaxUpdates
        /\ ApplyLocked([b EXCEPT !.timestamp = clock], clock)
        /\ outdated' = Outdated(View(heap, store_state), b)
        /\ UNCHANGED <<estimator, track_history, deg, mc, wire, san, sim, strat, clock, snap_view, storeVars>>

\* time passes
Tick ==
    /\ clock < MaxTime
    /\ clock' = clock + 1
    /\ UNCHANGED <<estimator, heap, store_state, history, update_count, track_history, deg, mc, wire, san, sim, strat,
                   snap, snap_view, outdated, storeVars>>

Next == Apply \/ Tick

Spec == Init /\ [][Next]_vars

-----------------------------------------------------------------------------
(* SpecStore: two tasks call apply() and reset() on one store that has two *)
(* subscribers.  asyncio runs a task until it suspends: the lock is free   *)
(* whenever a task reaches it and the body of "async with self._lock" has  *)
(* no await, so a call runs from its start to the first callback that      *)
(* suspends in one step, and from the completion of a callback to the next *)
(* one, or to the return, in one step.                                     *)

Tasks == {"t1", "t2"}

\* the subscribers, in the order they were registered
Callbacks == <<"c1", "c2">>

\* the batch simulation_service._process_lap builds for a lap of driver 1
LapBatch(lap) ==
    UpdateBatch(lap, 0, <<>>, <<LapData(1, lap, 90)>>, <<>>, <<>>, <<>>, <<>>, <<>>)

StoreBatches == {LapBatch(lap) : lap \in 1..MaxLap}

\* reset(None) and reset(RaceState(session_key=1, total_laps=...))
ResetKeys == {None, 1}

\* the state object reset() installs: new_state or RaceState(session_key=0)
ResetState(h, k, now) ==
    IF k = None THEN NewRaceState(h, 0, 0, now)
    ELSE NewRaceState(h, k, MaxLap, now)

\* the body of "async with self._lock" in reset()
ResetLocked(k, now) ==
    \E c \in {Collect(ResetState(heap, k, now), <<>>, snap)} :
        /\ heap' = c.heap
        /\ store_state' = c.state
        /\ snap' = c.snap
        /\ history' = c.history
        /\ update_count' = 0

\* _notify_subscribers from position i of the list, then "return
\* self._state": the next callback is called with the state the store holds
\* now (version ver, contents view) and the task waits for it; after the
\* last callback the call returns the state the store holds now
notify_subscribers(t, i, rnd, ver, view) ==
    IF i < Len(subscribers)
    THEN /\ pc' = [pc EXCEPT ![t] = "in_callback"]
         /\ iter' = [iter EXCEPT ![t] = i + 1]
         /\ delivered' = [delivered EXCEPT ![subscribers[i + 1]] = Append(@, ver)]
         /\ round' = [round EXCEPT ![t] =
                         [rnd EXCEPT !.called = Append(@, [cb |-> subscribers[i + 1],
                                                           version |-> ver])]]
         /\ ret' = ret
    ELSE /\ pc' = [pc EXCEPT ![t] = "done"]
         /\ iter' = [iter EXCEPT ![t] = i]
         /\ ret' = [ret EXCEPT ![t] = [version |-> ver, view |-> view]]
         /\ round' = [round EXCEPT ![t] = rnd]
         /\ delivered' = delivered

NewRound == [called |-> <<>>, raised |-> {}]

\* await store.apply(batch), up to the first suspension
ApplyCall(t, b) ==
    /\ pc[t] \in {"idle", "done"}
    /\ Len(log) < MaxUpdates
    /\ ApplyLocked([b EXCEPT !.timestamp = clock], clock)
    /\ log' = Append(log, [kind |-> "apply", batch |-> [b EXCEPT !.timestamp = clock],
                           key |-> None, now |-> clock])
    /\ op' = [op EXCEPT ![t] = [kind |-> "apply", version |-> Len(log) + 1,
                                view |-> View(heap', store_state')]]
    /\ notify_subscribers(t, 0, NewRound, Len(log) + 1, View(heap', store_state'))
    /\ UNCHANGED <<estimator, track_history, deg, mc, wire, san, sim, strat, clock, snap_view, outdated, subscribers, hung>>

\* await store.reset(new_state), up to the first suspension
ResetCall(t, k) ==
    /\ pc[t] \in {"idle", "done"}
    /\ Len(log) < MaxUpdates
    /\ ResetLocked(k, clock)
    /\ log' = Append(log, [kind |-> "reset", batch |-> NoBatch, key |-> k,
                           now |-> clock])
    /\ op' = [op EXCEPT ![t] = [kind |-> "reset", version |-> Len(log) + 1,
                                view |-> View(heap', store_state')]]
    /\ notify_subscribers(t, 0, NewRound, Len(log) + 1, View(heap', store_state'))
    /\ UNCHANGED <<estimator, track_history, deg, mc, wire, san, sim, strat, clock, snap_view, outdated, subscribers, hung>>

\* "await callback(self._state)" completes: the loop goes on
CallbackReturn(t) ==
    /\ pc[t] = "in_callback"
    /\ ~hung[t]
    /\ notify_subscribers(t, iter[t], round[t], Len(log), View(heap, store_state))
    /\ UNCHANGED <<estimator, heap, store_state, history, update_count, track_history, deg, mc, wire, san, sim, strat,
                   clock, snap, snap_view, outdated, subscribers, op, hung, log>>

\* the loop variable of _notify_subscribers: the callback task t awaits
callback(t) == round[t].called[Len(round[t].called)].cb

\* without the try/except of _notify_subscribers the exception leaves
\* the loop and the call
except_missing(t) ==
    /\ pc' = [pc EXCEPT ![t] = "raised"]
    /\ round' = [round EXCEPT ![t].raised = @ \cup {callback(t)}]
    /\ UNCHANGED <<estimator, iter, ret, delivered>>

\* "except Exception as e: print(...)": the loop goes on
except_Exception(t) ==
    notify_subscribers(t, iter[t],
                       [round[t] EXCEPT !.raised = @ \cup {callback(t)}],
                       Len(log), View(heap, store_state))

\* "await callback(self._state)" raises
CallbackRaise(t) ==
    /\ pc[t] = "in_callback"
    /\ ~hung[t]
    /\ except_Exception(t)
    /\ UNCHANGED <<estimator, heap, store_state, history, update_count, track_history, deg, mc, wire, san, sim, strat,
                   clock, snap, snap_view, outdated, subscribers, op, hung, log>>

\* the callback the task awaits is one that never completes
CallbackHang(t) ==
    /\ pc[t] = "in_callback"
    /\ ~hung[t]
    /\ hung' = [hung EXCEPT ![t] = TRUE]
    /\ UNCHANGED <<estimator, heap, store_state, history, update_count, track_history, deg, mc, wire, san, sim, strat,
                   clock, snap, snap_view, outdated, subscribers, pc, op, iter,
                   ret, log, delivered, round>>

\* RaceStateStore(), reset(initial state), two subscribe() calls
InitStoreSpec ==
    /\ track_history = FALSE
    /\ outdated = FALSE
    /\ InitStore(Drivers, MaxLap)
    /\ subscribers = Callbacks
    /\ pc = [t \in Tasks |-> "idle"]
    /\ op = [t \in Tasks |-> [kind |-> "none", version |-> 0,
                              view |-> View(heap, store_state)]]
    /\ iter = [t \in Tasks |-> 0]
    /\ ret = [t \in Tasks |-> [version |-> 0, view |-> View(heap, store_state)]]
    /\ hung = [t \in Tasks |-> FALSE]
    /\ log = <<>>
    /\ sim = SimulationService
    /\ strat = NoCall
    /\ deg = ModelManager
    /\ mc = NoCall
    /\ wire = <<>>
    /\ san = NoCall
    /\ estimator = NoEstimator
    /\ delivered = [c \in {"c1", "c2"} |-> <<>>]
    /\ round = [t \in Tasks |-> NewRound]

NextStore ==
    \E t \in Tasks :
        \/ \E b \in StoreBatches : ApplyCall(t, b)
        \/ \E k \in ResetKeys : ResetCall(t, k)
        \/ CallbackReturn(t)
        \/ CallbackRaise(t)
        \/ CallbackHang(t)

SpecStore == InitStoreSpec /\ [][NextStore]_vars

\* the event loop resumes a task whose awaited callback has completed or
\* raised; whether a callback ever completes is up to the callback
FairSpecStore ==
    SpecStore /\ \A t \in Tasks : WF_vars(CallbackReturn(t) \/ CallbackRaise(t))

-----------------------------------------------------------------------------
(* The store with subscribers that unsubscribe.  unsubscribe() is not a    *)
(* coroutine: it runs in one piece, inside a callback a task is awaiting   *)
(* or in any other code that runs while the tasks are suspended.           *)

\* l.remove(x) for x in l: the first occurrence goes
RECURSIVE list_remove(_, _)
list_remove(l, x) ==
    IF Head(l) = x THEN Tail(l) ELSE <<Head(l)>> \o list_remove(Tail(l), x)

\* the unsubscribe function subscribe(c) returned is called
Unsubscribe(c) ==
    /\ InList(subscribers, c)
    /\ subscribers' = list_remove(subscribers, c)
    /\ UNCHANGED <<estimator, heap, store_state, history, update_count, track_history, deg, mc, wire, san, sim, strat,
                   clock, snap, snap_view, outdated, pc, op, iter, ret, hung, log,
                   delivered, round>>

NextSubscribers ==
    \/ NextStore
    \/ \E c \in {"c1", "c2"} : Unsubscribe(c)

SpecSubscribers == InitStoreSpec /\ [][NextSubscribers]_vars

-----------------------------------------------------------------------------
(* SpecFrame: a reader keeps the object get() returned while one writer    *)
(* applies batches of every kind                                           *)

DriverInfo(n) ==
    [driver_number |-> n, name_acronym |-> "VER", full_name |-> "Max Verstappen",
     team_name |-> "Red Bull Racing", team_colour |-> "3671C6"]

PositionData(n, position, t) ==
    [driver_number |-> n, position |-> position, timestamp |-> t]

IntervalData(n, gap, interval, t) ==
    [driver_number |-> n, gap_to_leader |-> gap, interval |-> interval,
     timestamp |-> t]

PitData(n, lap, dur, t) ==
    [driver_number |-> n, lap_number |-> lap, pit_duration |-> dur,
     timestamp |-> t]

RaceControlMessage(category, flag, message, lap, t) ==
    [category |-> category, flag |-> flag, message |-> message,
     lap_number |-> lap, timestamp |-> t]

\* "YELLOW IN SECTOR 2"
STR_YELLOW_IN_SECTOR_2 ==
    <<"Y","E","L","L","O","W"," ","I","N"," ","S","E","C","T","O","R"," ","2">>

\* one batch per kind of record, the batch that carries them all, and the
\* pit stop and message of the lap after
FrameBatches ==
    LET d == <<DriverInfo(1)>>
        l == <<LapData(1, 1, 90)>>
        p == <<PositionData(1, 1, 0)>>
        i == <<IntervalData(1, 0, 0, 0)>>
        s == <<StintData(1, 2, 1)>>
        pit == <<PitData(1, 1, 25, 0)>>
        rc == <<RaceControlMessage("Flag", "YELLOW", STR_YELLOW_IN_SECTOR_2, 1, 0)>>
        e == <<>>
    IN  {UpdateBatch(None, 0, d, e, e, e, e, e, e),
         UpdateBatch(None, 0, e, l, e, e, e, e, e),
         UpdateBatch(None, 0, e, e, p, e, e, e, e),
         UpdateBatch(None, 0, e, e, e, i, e, e, e),
         UpdateBatch(None, 0, e, e, e, e, s, e, e),
         UpdateBatch(None, 0, e, e, e, e, e, pit, e),
         UpdateBatch(None, 0, e, e, e, e, e, e, rc),
         UpdateBatch(1, 0, d, l, p, i, s, pit, rc),
         UpdateBatch(2, 0, e, e, e, e, e, <<PitData(2, 2, 24, 0)>>,
                     <<RaceControlMessage("Flag", "GREEN", <<"G","R","E","E","N">>,
                                          2, 0)>>)}

InitFrame ==
    /\ track_history = FALSE
    /\ outdated = FALSE
    /\ \E known \in {{2}, Drivers} : InitStore(known, MaxLap)
    /\ InitIdle
    /\ strat = NoCall
    /\ deg = ModelManager
    /\ mc = NoCall
    /\ wire = <<>>
    /\ san = NoCall
    /\ estimator = NoEstimator

\* await store.apply(batch) by the only writer, with no subscriber
ApplyFrame ==
    \E b \in FrameBatches :
        /\ update_count < MaxUpdates
        /\ ApplyLocked([b EXCEPT !.timestamp = clock], clock)
        /\ UNCHANGED <<estimator, track_history, deg, mc, wire, san, sim, strat, clock, snap_view, outdated, storeVars>>

NextFrame == ApplyFrame \/ Get

SpecFrame == InitFrame /\ [][NextFrame]_vars

-----------------------------------------------------------------------------
(* SpecControl: one writer applies race-control messages, one per batch    *)

\* race-control messages: "TRACK CLEAR", "RED FLAG", "YELLOW IN SECTOR 2",
\* "Safety Car deployed", "SAFETY CAR IN THIS LAP", "VSC DEPLOYED" and
\* "VSC ENDING"
ControlMessages ==
    {RaceControlMessage("Flag", "GREEN",
                        <<"T","R","A","C","K"," ","C","L","E","A","R">>, 1, 0),
     RaceControlMessage("Flag", "RED",
                        <<"R","E","D"," ","F","L","A","G">>, 1, 0),
     RaceControlMessage("Flag", "YELLOW",
                        <<"Y","E","L","L","O","W"," ","I","N"," ","S","E","C","T","O","R"," ","2">>, 1, 0),
     RaceControlMessage("SafetyCar", NoneStr,
                        <<"S","a","f","e","t","y"," ","C","a","r"," ","d","e","p","l","o","y","e","d">>, 1, 0),
     RaceControlMessage("SafetyCar", NoneStr,
                        <<"S","A","F","E","T","Y"," ","C","A","R"," ","I","N"," ","T","H","I","S"," ","L","A","P">>, 1, 0),
     RaceControlMessage("SafetyCar", NoneStr,
                        <<"V","S","C"," ","D","E","P","L","O","Y","E","D">>, 1, 0),
     RaceControlMessage("SafetyCar", NoneStr,
                        <<"V","S","C"," ","E","N","D","I","N","G">>, 1, 0)}

\* await store.apply(batch) with one race-control message
ApplyMessage ==
    \E m \in ControlMessages :
        /\ update_count < MaxMsgs
        /\ ApplyLocked(UpdateBatch(None, clock, <<>>, <<>>, <<>>, <<>>, <<>>, <<>>, <<m>>), clock)
        /\ UNCHANGED <<estimator, track_history, deg, mc, wire, san, sim, strat, clock, snap_view, outdated, storeVars>>

SpecControl == InitFrame /\ [][ApplyMessage]_vars

-----------------------------------------------------------------------------
(* SpecEvents: one writer applies the pit stops and the race-control       *)
(* messages of one lap per batch; the batch of a lap may come one lap      *)
(* early, one lap late, or again                                           *)

\* the batch of one lap: pits_this_lap of three drivers and the five
\* messages rc_this_lap[-5:], every record with its own timestamp
EventBatch(lap) ==
    UpdateBatch(lap, 0, <<>>, <<>>, <<>>, <<>>, <<>>,
                [d \in 1..3 |-> PitData(d, lap, 2, 5 * lap + d)],
                [i \in 1..5 |-> RaceControlMessage("Other", NoneStr, <<>>, lap,
                                                   5 * lap + i - 1)])

\* await store.apply(lap_batch)
ApplyEvents ==
    \E lap \in {l \in 1..MaxEvents + 1 : l - update_count \in 0..2} :
        /\ update_count < MaxEvents
        /\ ApplyLocked(EventBatch(lap), clock)
        /\ log' = Append(log, [kind |-> "apply", batch |-> EventBatch(lap),
                               key |-> None, now |-> clock])
        /\ UNCHANGED <<estimator, track_history, deg, mc, wire, san, sim, strat, clock, snap_view, outdated, subscribers,
                       pc, op, iter, ret, hung, delivered, round>>

SpecEvents == InitFrame /\ [][ApplyEvents]_vars

-----------------------------------------------------------------------------
(* SpecSim: simulation_service.py.  start() and stop() are called from     *)
(* request handlers; every loop task runs _run_loop.  A task or a call     *)
(* runs from one suspension to the next in one step.  A loop task is       *)
(* suspended before its first step ("created"), inside _load_data before   *)
(* ("load") and after ("loaded") the store is reset, inside a subscriber   *)
(* callback of apply() ("notify") or inside _animate_lap ("animate").      *)

\* asyncio.create_task(self._run_loop(year, round_number))
create_task == [pc |-> "created", lap |-> 0, cancel |-> FALSE, ended |-> "no"]

\* "await callback(self._state)" suspends the caller of apply() only when
\* there is a subscriber to call
apply_suspends_always == TRUE

apply_suspends == subscribers # <<>>

\* the body of "async with self._lock" in reset(new_state)
ResetTo(hs) ==
    \E c \in {Collect(hs, <<>>, snap)} :
        /\ heap' = c.heap
        /\ store_state' = c.state
        /\ snap' = c.snap
        /\ history' = c.history
        /\ update_count' = 0

\* the task ends: cancelled where it was suspended, or by the checks of the
\* loop at an iteration boundary
loop_ends(i, how) ==
    /\ sim' = [sim EXCEPT !.loops[i].pc = "done", !.loops[i].ended = how]
    /\ UNCHANGED <<estimator, heap, store_state, snap, history, update_count>>

\* _update_degradation, _update_strategy_metrics and _animate_lap up to its
\* first suspension: three reset(state.model_copy(...)) of the state the
\* store holds, the last with current_lap set
lap_results(i, lap, hs) ==
    /\ ResetTo([hs EXCEPT !.s.current_lap = lap])
    /\ sim' = [sim EXCEPT !.loops[i].pc = "animate", !.loops[i].lap = lap,
                          !.written = [telemetry |-> lap, degradation |-> lap,
                                       strategy |-> lap]]

\* one step of loop task i, from where it is suspended to its next suspension
LoopStep(i) ==
    /\ sim.loops[i].pc # "done"
    /\ \E l \in {sim.loops[i]} :
        CASE l.cancel -> loop_ends(i, l.pc)
          [] ~l.cancel /\ l.pc = "created" ->
                /\ sim' = [sim EXCEPT !.loops[i].pc = "load"]
                /\ UNCHANGED <<estimator, heap, store_state, snap, history, update_count>>
          [] ~l.cancel /\ l.pc = "load" ->
                /\ ResetLocked(1, clock)
                /\ sim' = [sim EXCEPT !.loops[i].pc = "loaded",
                                      !.written = SimulationService.written]
          [] ~l.cancel /\ l.pc \in {"loaded", "animate"} ->
                IF ~sim.running \/ l.lap >= MaxLap
                THEN loop_ends(i, "boundary")
                ELSE IF apply_suspends
                THEN /\ ApplyLocked(LapBatch(l.lap + 1), clock)
                     /\ sim' = [sim EXCEPT !.loops[i].pc = "notify",
                                           !.loops[i].lap = l.lap + 1,
                                           !.written.telemetry = l.lap + 1]
                ELSE lap_results(i, l.lap + 1,
                                 apply_update_batch(heap, store_state,
                                                    LapBatch(l.lap + 1), clock))
          [] ~l.cancel /\ l.pc = "notify" ->
                lap_results(i, l.lap, [h |-> heap, s |-> store_state])
    /\ UNCHANGED <<estimator, track_history, deg, mc, wire, san, clock, snap_view, outdated, storeVars, strat>>

\* the rest of stop() after "await self._task", and for start() the
\* creation of the new task
returned(s, kind) ==
    IF kind = "start"
    THEN [s EXCEPT !.task = Len(s.loops) + 1, !.running = TRUE,
                   !.loops = Append(@, create_task)]
    ELSE [s EXCEPT !.task = None]

\* start() or stop(), up to "await self._task" when the task has not ended
Call(kind) ==
    /\ Len(sim.waiters) < MaxWaiters
    /\ kind = "start" =>
          Len(sim.loops) + Len(SelectSeq(sim.waiters, LAMBDA w : w.kind = "start")) < MaxTasks
    /\ sim' = IF sim.task = None
              THEN returned([sim EXCEPT !.running = FALSE, !.task = None], kind)
              ELSE IF sim.loops[sim.task].pc = "done"
              THEN returned([sim EXCEPT !.running = FALSE], kind)
              ELSE [sim EXCEPT !.running = FALSE, !.loops[sim.task].cancel = TRUE,
                               !.waiters = Append(@, [kind |-> kind, task |-> sim.task])]
    /\ UNCHANGED <<estimator, heap, store_state, snap, history, update_count, track_history, deg, mc, wire, san,
                   clock, snap_view, outdated, storeVars, strat>>

\* the calls waiting for the task resume one after the other, in the order
\* they began to wait
RECURSIVE wake(_, _)
wake(s, ws) ==
    IF ws = <<>> THEN s
    ELSE wake(returned([s EXCEPT !.task = None], Head(ws).kind), Tail(ws))

\* task t has ended and the calls waiting for it resume
Wake(t) ==
    /\ sim.loops[t].pc = "done"
    /\ \E i \in 1..Len(sim.waiters) : sim.waiters[i].task = t
    /\ sim' = wake([sim EXCEPT !.waiters = SelectSeq(@, LAMBDA w : w.task # t)],
                   SelectSeq(sim.waiters, LAMBDA w : w.task = t))
    /\ UNCHANGED <<estimator, heap, store_state, snap, history, update_count, track_history, deg, mc, wire, san,
                   clock, snap_view, outdated, storeVars, strat>>

NextSim ==
    \/ \E i \in 1..Len(sim.loops) : LoopStep(i)
    \/ \E kind \in {"start", "stop"} : Call(kind)
    \/ \E t \in 1..Len(sim.loops) : Wake(t)

SpecSim == InitFrame /\ [][NextSim]_vars

-----------------------------------------------------------------------------
(* SpecStrategy: strategy/pit_window.py and strategy/decision.py.  Floats  *)
(* are counted in thousandths: 0.85 is 850, 22.0 is 22000.                 *)

\* int(a / b) for b > 0: rounds towards zero
Trunc(a, b) == IF a >= 0 THEN a \div b ELSE -((-a) \div b)

min_stint_laps == 10

\* a window whose max_lap is returned as computed
window_max_raw(min_lap, max_lap) == max_lap

\* max_lap=max(min_lap, max_lap)
window_max(min_lap, max_lap) == Max(min_lap, max_lap)

\* ideal_lap before the clamp, by cliff risk
ideal_by_risk(current_lap, min_lap, max_lap, cliff_risk) ==
    IF cliff_risk > 700
    THEN current_lap + Max(1, Trunc((max_lap - min_lap) * 3, 10))
    ELSE IF cliff_risk > 400
    THEN current_lap + ((max_lap - min_lap) \div 2)
    ELSE max_lap

\* the window from min_lap and max_lap as first computed
window_from(current_lap, min_lap, max_lap, cliff_risk) ==
    [min_lap |-> Max(1, min_lap),
     max_lap |-> window_max(min_lap, max_lap),
     ideal_lap |-> Max(min_lap, Min(max_lap, ideal_by_risk(current_lap, min_lap,
                                                            max_lap, cliff_risk))),
     confidence |-> 1000 - Min(500, cliff_risk \div 2)]

\* mutant of find_optimal_window: a window may open on the current lap
find_optimal_window_from_current_lap(current_lap, total_laps, deg_slope, pit_loss, tyre_age, cliff_risk) ==
    IF total_laps - current_lap <= min_stint_laps
    THEN [min_lap |-> 0, max_lap |-> 0, ideal_lap |-> 0, confidence |-> 1000]
    ELSE window_from(current_lap,
                     current_lap + Max(0, min_stint_laps - tyre_age),
                     current_lap + Min(total_laps - current_lap - min_stint_laps,
                                       Trunc(pit_loss, Max(deg_slope, 10)) + 5),
                     cliff_risk)

find_optimal_window(current_lap, total_laps, deg_slope, pit_loss, tyre_age, cliff_risk) ==
    IF total_laps - current_lap <= min_stint_laps
    THEN [min_lap |-> 0, max_lap |-> 0, ideal_lap |-> 0, confidence |-> 1000]
    ELSE window_from(current_lap,
                     current_lap + Max(1, min_stint_laps - tyre_age),
                     current_lap + Min(total_laps - current_lap - min_stint_laps,
                                       Trunc(pit_loss, Max(deg_slope, 10)) + 5),
                     cliff_risk)

\* should_pit_now without its "Critical cliff risk" rule
should_pit_now_no_cliff_rule(current_lap, window, cliff_risk, undercut_threat, safety_car) ==
    IF safety_car /\ window.min_lap <= current_lap /\ current_lap <= window.max_lap
    THEN [pit |-> TRUE, confidence |-> 950]
    ELSE IF undercut_threat /\ current_lap >= window.min_lap
    THEN [pit |-> TRUE, confidence |-> 800]
    ELSE IF current_lap = window.ideal_lap
    THEN [pit |-> TRUE, confidence |-> window.confidence]
    ELSE IF current_lap > window.max_lap THEN [pit |-> TRUE, confidence |-> 700]
    ELSE [pit |-> FALSE, confidence |-> 500]

\* (should_pit, confidence) of should_pit_now
should_pit_now(current_lap, window, cliff_risk, undercut_threat, safety_car) ==
    IF safety_car /\ window.min_lap <= current_lap /\ current_lap <= window.max_lap
    THEN [pit |-> TRUE, confidence |-> 950]
    ELSE IF cliff_risk > 850 THEN [pit |-> TRUE, confidence |-> 900]
    ELSE IF undercut_threat /\ current_lap >= window.min_lap
    THEN [pit |-> TRUE, confidence |-> 800]
    ELSE IF current_lap = window.ideal_lap
    THEN [pit |-> TRUE, confidence |-> window.confidence]
    ELSE IF current_lap > window.max_lap THEN [pit |-> TRUE, confidence |-> 700]
    ELSE [pit |-> FALSE, confidence |-> 500]

\* "if gap_to_ahead and gap_to_ahead < pit_loss + 3.0: if ahead_deg > deg_slope + 0.02"
undercut_threat(c) ==
    /\ c.gap_to_ahead # None
    /\ c.gap_to_ahead # 0
    /\ c.gap_to_ahead < c.pit_loss + 3000
    /\ c.ahead_deg > c.deg_slope + 20

\* the two passes of should_pit_now: the second, with the threat, only
\* when the first did not say pit
should_pit(c, window) ==
    IF undercut_threat(c) /\ ~should_pit_now(c.current_lap, window, c.cliff_risk,
                                             FALSE, c.safety_car).pit
    THEN should_pit_now(c.current_lap, window, c.cliff_risk, TRUE, c.safety_car)
    ELSE should_pit_now(c.current_lap, window, c.cliff_risk, FALSE, c.safety_car)

\* "Determine recommendation type"
recommendation(c, window, sp) ==
    IF c.safety_car /\ window.min_lap <= c.current_lap /\ c.current_lap <= window.max_lap
    THEN [recommendation |-> "PIT_NOW", confidence |-> 950]
    ELSE IF sp.pit
    THEN [recommendation |-> IF sp.confidence > 700 THEN "PIT_NOW" ELSE "CONSIDER_PIT",
          confidence |-> sp.confidence]
    ELSE IF c.total_laps - c.current_lap <= 10 /\ c.tyre_age < 15
    THEN [recommendation |-> "EXTEND_STINT", confidence |-> 800]
    ELSE [recommendation |-> "STAY_OUT", confidence |-> 1000 - c.cliff_risk \div 2]

\* a decision that does not look at the safety car
decide_without_safety_car(c, window) ==
    [pit_window |-> window, undercut_threat |-> undercut_threat(c),
     rec |-> recommendation([c EXCEPT !.safety_car = FALSE], window,
                            should_pit([c EXCEPT !.safety_car = FALSE], window))]

decide(c, window) ==
    [pit_window |-> window, undercut_threat |-> undercut_threat(c),
     rec |-> recommendation(c, window, should_pit(c, window))]

\* the StrategyRecommendation of evaluate_strategy for the call c
evaluate_strategy(c) ==
    decide(c, find_optimal_window(c.current_lap, c.total_laps, c.deg_slope,
                                  c.pit_loss, c.tyre_age, c.cliff_risk))

\* gap_to_ahead and ahead_deg of a call
Gaps == {None, 0, 2000, 30000}
AheadDegs == {50, 3000}

\* the calls: laps and tyre ages are not negative, pit_loss is positive
StrategyCalls ==
    [fn : {"evaluate_strategy"},
     current_lap : 0..MaxCurrentLap,
     total_laps : {0} \cup (10..MaxTotalLaps),
     deg_slope : {-50, 250, 2000},
     cliff_risk : {0, 400, 500, 700, 800, 850, 900},
     tyre_age : {0, 5, 20},
     pit_loss : {1000, 2500, 22000},
     gap_to_ahead : Gaps,
     ahead_deg : AheadDegs,
     safety_car : BOOLEAN,
     done : {FALSE},
     result : {NoCall}]

InitStrategy ==
    /\ track_history = FALSE
    /\ outdated = FALSE
    /\ InitStore(Drivers, MaxLap)
    /\ InitIdle
    /\ strat \in StrategyCalls
    /\ deg = ModelManager
    /\ mc = NoCall
    /\ wire = <<>>
    /\ san = NoCall
    /\ estimator = NoEstimator

\* rec = evaluate_strategy(...)
Evaluate ==
    /\ ~strat.done
    /\ strat' = [strat EXCEPT !.done = TRUE, !.result = evaluate_strategy(strat)]
    /\ UNCHANGED <<estimator, heap, store_state, history, update_count, track_history, deg, mc, wire, san,
                   clock, snap, snap_view, outdated, storeVars, sim>>

SpecStrategy == InitStrategy /\ [][Evaluate]_vars

-----------------------------------------------------------------------------
(* Degradation models: rsw/models/degradation/online_model.py              *)
(* Times are in thousandths of a second, slopes in thousandths per lap.    *)

MaxCalls == 3

DegDrivers == {1, 44}
StintNumbers == {1, 2}
Compounds == {"SOFT"}
LapTimes == {0, 90000}
LapsInStint == {1}

\* RLSEstimator(n_features = 2) after warm_start(base_pace, deg_slope, uncertainty).
\* theta and P are floats computed from the prior and from the observations
\* fed so far; the model keeps those arguments themselves, so an estimator
\* is unchanged exactly when nothing was fed to it
warm_start(base_pace, deg_slope, uncertainty) ==
    [prior |-> <<base_pace, deg_slope>>, uncertainty |-> uncertainty,
     fed |-> <<>>, n_updates |-> 0]

\* RLSEstimator.update(x, y): theta, P move by the observation, n_updates += 1
rls_update(rls, x, y) ==
    [rls EXCEPT !.fed = Append(@, <<x, y>>), !.n_updates = @ + 1]

\* RLSEstimator.get_deg_slope(): theta[1]
rls_deg_slope(rls) == [prior |-> rls.prior[2], fed |-> rls.fed]

\* COMPOUND_PRIORS[compound].deg_per_lap, MEDIUM for an unknown compound
deg_per_lap(compound) ==
    CASE compound = "SOFT" -> 80
      [] compound = "HARD" -> 30
      [] OTHER -> 50

get_warm_start_params(compound, base_pace) ==
    <<IF base_pace = None THEN 90000 ELSE base_pace, deg_per_lap(compound)>>

\* current_stint is None
NoStint == [stint_number |-> None]

StintModel(stint_number, compound, start_lap, rls) ==
    [stint_number |-> stint_number, compound |-> compound, start_lap |-> start_lap,
     rls |-> rls, lap_times |-> <<>>, is_active |-> TRUE]

DriverDegradationModel ==
    [current_stint |-> NoStint, stint_history |-> <<>>, estimated_base_pace |-> None]

\* new_stint(stint_number, compound, start_lap): no caller passes base_pace,
\* and `None or estimated_base_pace` is estimated_base_pace
new_stint(m, stint_number, compound, start_lap) ==
    LET w == get_warm_start_params(compound, m.estimated_base_pace)
    IN  [m EXCEPT
            !.stint_history = IF m.current_stint = NoStint THEN @
                              ELSE Append(@, [m.current_stint EXCEPT !.is_active = FALSE]),
            !.current_stint = StintModel(stint_number, compound, start_lap,
                                         warm_start(w[1], w[2], 50000))]

\* mutant of skips_estimator: only non-positive lap times are kept from the estimator
skips_estimator_valid_only(is_valid, lap_time) == lap_time <= 0

\* `if not is_valid or lap_time <= 0: return 0.0`
skips_estimator(is_valid, lap_time) == ~is_valid \/ lap_time <= 0

\* DriverDegradationModel.update(lap_in_stint, lap_time, is_valid)
update(m, lap_in_stint, lap_time, is_valid) ==
    LET m1 == IF m.current_stint = NoStint THEN new_stint(m, 1, "MEDIUM", 1) ELSE m
        m2 == [m1 EXCEPT !.current_stint.lap_times = Append(@, lap_time)]
    IN  IF skips_estimator(is_valid, lap_time) THEN m2
        ELSE [m2 EXCEPT
                !.current_stint.rls = rls_update(@, <<1000, 1000 * lap_in_stint>>, lap_time),
                !.estimated_base_pace = IF @ = None THEN lap_time
                                        ELSE (9 * @ + lap_time) \div 10]

\* DriverDegradationModel.get_deg_slope(): 0.0 without a current stint
get_deg_slope(m) ==
    IF m.current_stint = NoStint THEN [prior |-> 0, fed |-> <<>>]
    ELSE rls_deg_slope(m.current_stint.rls)

\* ModelManager.get_or_create(driver_number)
get_or_create(models, driver_number) ==
    IF driver_number \in DOMAIN models THEN models[driver_number]
    ELSE DriverDegradationModel

\* update_driver up to its last line: the model on which update is called
stint_checked(m, c) ==
    IF m.current_stint = NoStint \/ m.current_stint.stint_number # c.stint_number
    THEN new_stint(m, c.stint_number, c.compound, c.lap_in_stint)
    ELSE m

\* mutant of update_driver: the lap is recorded before the stint change is handled
update_driver_late_stint(m, c) ==
    stint_checked(update(m, c.lap_in_stint, c.lap_time, c.is_valid), c)

\* ModelManager.update_driver(driver_number, lap_in_stint, lap_time, stint_number, compound, is_valid)
update_driver(m, c) ==
    update(stint_checked(m, c), c.lap_in_stint, c.lap_time, c.is_valid)

DegCalls ==
    [driver_number : DegDrivers, lap_in_stint : LapsInStint, lap_time : LapTimes,
     stint_number : StintNumbers, compound : Compounds, is_valid : BOOLEAN]

\* the call is made; before is the model on which update was entered
Called(fn, c, before, after) ==
    /\ Len(deg.calls) < MaxCalls
    /\ deg' = [models |-> (c.driver_number :> after) @@ deg.models,
               calls |-> Append(deg.calls, [fn |-> fn, args |-> c, before |-> before])]
    /\ UNCHANGED <<estimator, heap, store_state, history, update_count, track_history, mc, wire, san,
                   clock, snap, snap_view, outdated, storeVars, sim, strat>>

\* manager.update_driver(...)
UpdateDriver ==
    \E c \in DegCalls :
        LET m == get_or_create(deg.models, c.driver_number)
        IN  Called("update_driver", c, stint_checked(m, c), update_driver(m, c))

\* manager.get_or_create(driver_number).update(lap_in_stint, lap_time, is_valid);
\* stint_number and compound are no arguments of update and are held fixed
Update ==
    \E c \in {x \in DegCalls : x.stint_number = 1 /\ x.compound = "SOFT"} :
        LET m == get_or_create(deg.models, c.driver_number)
        IN  Called("update", c, m, update(m, c.lap_in_stint, c.lap_time, c.is_valid))

NextDegradation == UpdateDriver \/ Update

SpecDegradation == InitFrame /\ [][NextDegradation]_vars

-----------------------------------------------------------------------------
(* Monte Carlo outcome simulator: rsw/strategy/monte_carlo.py              *)
(* Times are in thousandths of a second.                                   *)

MaxSimulations == 101
RandomStates == 16

parallel_threshold == 100
max_base_seed == 10000

\* The random module is a generator with a state: seeding sets the state as
\* a function of the seed, every draw reads the state and moves it on.  The
\* model's generator has RandomStates states.
\* random.seed(s)
random_seed(s) == s % RandomStates

\* the state after k draws
drawn_times(g, k) == (g + k) % RandomStates

\* the state after one draw
drawn(g) == drawn_times(g, 1)

\* random.randint(a, b): many states of the generator give the same value
randint(g, a, b) == a + (g % 4) * ((b - a) \div 4)

\* the variance a car collects over the race: the sampled scenario and the
\* random.gauss(0, 0.2) of each lap, to the three values the model keeps
variance(g) == (((g * g + g \div 2) % 3) - 1) * 200

\* total of `pace + deg * lap` for lap in range(remaining_laps)
RECURSIVE race_time(_, _, _)
race_time(pace, slope, remaining_laps) ==
    IF remaining_laps <= 0 THEN 0
    ELSE race_time(pace, slope, remaining_laps - 1) + pace + slope * (remaining_laps - 1)

\* mutant of finish_position: positions are counted from 0
finish_position_from_zero(our_time, times) ==
    Cardinality({i \in DOMAIN times : times[i] < our_time})

\* all_times.sort(key = time) is stable and the driver is listed first, so
\* the driver is behind exactly the cars with a smaller time; enumerate(.., 1)
finish_position(our_time, times) ==
    1 + Cardinality({i \in DOMAIN times : times[i] < our_time})

\* simulate_single_race(...) run on generator state g
simulate_single_race(c, g) ==
    LET our_time == race_time(c.driver_pace, c.driver_deg, c.remaining_laps) + variance(g)
        times == [i \in 1..Len(c.competitors) |->
                    race_time(c.competitors[i][1], c.competitors[i][2], c.remaining_laps)
                        + variance(drawn_times(g, i))]
    IN  finish_position(our_time, times)

\* _run_single_sim(args): random.seed(seed), then the trial
run_single_sim(c, seed) == simulate_single_race(c, random_seed(seed))

\* _simulate_sequential_legacy(...): n trials, one after the other, on the
\* generator of the calling process as it stands: a trial makes one draw per
\* car and starts where the trial before it left the generator
simulate_sequential_legacy(c, g, n) ==
    [i \in 1..n |->
        simulate_single_race(c, drawn_times(g, (i - 1) * (Len(c.competitors) + 1)))]

\* args_list mapped over the pool: trial i runs with seed base_seed + i
seeded_positions(c, base_seed, n) ==
    [i \in 1..n |-> run_single_sim(c, base_seed + (i - 1))]

\* mutant of pool_failed: the fallback keeps what the pool had delivered
pool_failed_resumes(collected, c, g) ==
    collected \o simulate_sequential_legacy(c, g, c.n_simulations - Len(collected))

\* `except Exception:` of _simulate_parallel: every trial is run again, sequentially
pool_failed(collected, c, g) == simulate_sequential_legacy(c, g, c.n_simulations)

\* the sum of the positions that are at most p
RECURSIVE SumUpTo(_, _)
SumUpTo(positions, p) ==
    IF p = 0 THEN 0
    ELSE p * Cardinality({i \in DOMAIN positions : positions[i] = p})
            + SumUpTo(positions, p - 1)

\* _calculate_statistics(driver_number, positions, n_simulations); a float
\* quotient is kept as its numerator and denominator
calculate_statistics(positions, n_simulations) ==
    LET count(limit) == Cardinality({i \in DOMAIN positions : positions[i] <= limit})
        seen == {positions[i] : i \in DOMAIN positions}
        worst == CHOOSE p \in seen : \A q \in seen : q <= p
    IN  [n_simulations |-> n_simulations,
         expected_position |-> [num |-> SumUpTo(positions, worst), den |-> Len(positions)],
         prob_win |-> [num |-> count(1), den |-> n_simulations],
         prob_podium |-> [num |-> count(3), den |-> n_simulations],
         prob_points |-> [num |-> count(10), den |-> n_simulations],
         worst_case |-> worst,
         best_case |-> CHOOSE p \in seen : \A q \in seen : p <= q]

\* competitors: lists of (pace, deg)
Fields ==
    {<<>>, <<<<89900, 50>>>>, <<<<89900, 50>>, <<90000, 50>>>>, <<<<90000, 50>>, <<90000, 50>>>>}

MonteCarloCalls ==
    [fn : {"simulate_race"},
     driver_pace : {90000}, driver_deg : {50}, remaining_laps : {1, 2},
     competitors : Fields,
     n_simulations : {1, 2, parallel_threshold} \cup (parallel_threshold + 1)..MaxSimulations,
     g : 0..(RandomStates - 1), g_returned : {None},
     done : {FALSE}, path : {"none"}, base_seed : {None}, collected : {<<>>},
     positions : {<<>>}, result : {NoCall}]

InitMonteCarlo ==
    /\ track_history = FALSE
    /\ outdated = FALSE
    /\ InitStore(Drivers, MaxLap)
    /\ InitIdle
    /\ strat = NoCall
    /\ deg = ModelManager
    /\ mc \in MonteCarloCalls
    /\ wire = <<>>
    /\ san = NoCall
    /\ estimator = NoEstimator

\* simulate_race returns _calculate_statistics(driver_number, positions, n_simulations);
\* g is the state in which the call leaves the caller's generator
Returns(path, g, base_seed, collected, positions) ==
    /\ ~mc.done
    /\ mc' = [mc EXCEPT !.done = TRUE, !.path = path, !.g_returned = g, !.base_seed = base_seed,
                        !.collected = collected, !.positions = positions,
                        !.result = calculate_statistics(positions, mc.n_simulations)]
    /\ UNCHANGED <<estimator, heap, store_state, history, update_count, track_history, deg, wire, san,
                   clock, snap, snap_view, outdated, storeVars, sim, strat>>

\* n_simulations <= 100
RunSequential ==
    /\ mc.n_simulations <= parallel_threshold
    /\ Returns("sequential", drawn_times(mc.g, mc.n_simulations * (Len(mc.competitors) + 1)),
               None, <<>>, simulate_sequential_legacy(mc, mc.g, mc.n_simulations))

\* n_simulations > 100 and the pool delivers every result
RunParallel ==
    /\ mc.n_simulations > parallel_threshold
    /\ LET base_seed == randint(mc.g, 0, max_base_seed)
           positions == seeded_positions(mc, base_seed, mc.n_simulations)
       IN  Returns("parallel", drawn(mc.g), base_seed, positions, positions)

\* n_simulations > 100 and the pool raises: when it is created or fed
\* (nothing collected), or after k results were collected
RunParallelFailing ==
    /\ mc.n_simulations > parallel_threshold
    /\ \E k \in 0..(mc.n_simulations - 1) :
        LET base_seed == randint(mc.g, 0, max_base_seed)
            collected == seeded_positions(mc, base_seed, k)
        IN  Returns("fallback",
                    drawn_times(mc.g, 1 + mc.n_simulations * (Len(mc.competitors) + 1)),
                    base_seed, collected, pool_failed(collected, mc, drawn(mc.g)))

NextMonteCarlo == RunSequential \/ RunParallel \/ RunParallelFailing

SpecMonteCarlo == InitMonteCarlo /\ [][NextMonteCarlo]_vars

-----------------------------------------------------------------------------
(* JSON sanitisation: rsw/services/simulation_service.py                    *)
(* A Python value is a record of its type t and its content.  A float is   *)
(* finite with its value in thousandths, or not finite with v = 0 for nan, *)
(* 1 for inf and -1 for -inf.                                               *)

MaxDepth == 3

PyNone == [t |-> "NoneType"]
PyBool(b) == [t |-> "bool", b |-> b]
PyInt(n) == [t |-> "int", v |-> n]
PyStr(x) == [t |-> "str", s |-> x]
PyFloat(x) == [t |-> "float", finite |-> TRUE, v |-> x]
NaN == [t |-> "float", finite |-> FALSE, v |-> 0]
Infinity == [t |-> "float", finite |-> FALSE, v |-> 1]
NegInfinity == [t |-> "float", finite |-> FALSE, v |-> -1]
PyList(items) == [t |-> "list", items |-> items]
PyDict(items) == [t |-> "dict", entries |-> items]

\* numpy scalars: np.float64(x), np.float64("nan"), np.int64(n)
NpFloat(x) == [t |-> "np.float64", finite |-> TRUE, v |-> x]
NpNaN == [t |-> "np.float64", finite |-> FALSE, v |-> 0]
NpInt(n) == [t |-> "np.int64", v |-> n]

\* mutant of non_finite: only nan is looked for
non_finite_nan_only(obj) == ~obj.finite /\ obj.v = 0

\* math.isnan(obj) or math.isinf(obj)
non_finite(obj) == ~obj.finite

\* sanitize_for_json(obj)
RECURSIVE sanitize_for_json(_)
sanitize_for_json(obj) ==
    CASE obj.t \in {"float", "np.float64"} ->
            IF non_finite(obj) THEN PyNone ELSE PyFloat(obj.v)
      [] obj.t \in {"int", "np.int64"} -> PyInt(obj.v)
      [] obj.t = "dict" ->
            PyDict([k \in DOMAIN obj.entries |-> sanitize_for_json(obj.entries[k])])
      [] obj.t = "list" ->
            PyList([i \in DOMAIN obj.items |-> sanitize_for_json(obj.items[i])])
      [] OTHER -> obj

Atoms ==
    {PyNone, PyBool(TRUE), PyInt(42), PyStr("hello"), PyFloat(123456),
     NaN, Infinity, NegInfinity, NpFloat(1500), NpNaN, NpInt(7)}

\* the values with one more level of nesting around the values of S
Nested(S) ==
    {PyList(<<x>>) : x \in S} \cup {PyDict("value" :> x) : x \in S}

\* the lists and dicts of at most two atoms
Flat ==
    {PyList(<<>>), PyDict(<<>>)}
        \cup {PyList(<<x, y>>) : x \in Atoms, y \in Atoms}
        \cup {PyDict(("bad_value" :> x) @@ ("good_value" :> y)) : x \in Atoms, y \in Atoms}

RECURSIVE JsonValues(_)
JsonValues(depth) ==
    IF depth = 0 THEN Atoms
    ELSE LET inner == JsonValues(depth - 1)
         IN  inner \cup Nested(inner) \cup Flat

InitSanitize ==
    /\ track_history = FALSE
    /\ outdated = FALSE
    /\ InitStore(Drivers, MaxLap)
    /\ InitIdle
    /\ strat = NoCall
    /\ deg = ModelManager
    /\ mc = NoCall
    /\ wire = <<>>
    /\ estimator = NoEstimator
    /\ san \in [fn : {"sanitize_for_json"}, obj : JsonValues(MaxDepth),
                 done : {FALSE}, result : {PyNone}]

\* result = sanitize_for_json(obj)
Sanitize ==
    /\ ~san.done
    /\ san' = [san EXCEPT !.done = TRUE, !.result = sanitize_for_json(san.obj)]
    /\ UNCHANGED <<estimator, heap, store_state, history, update_count, track_history, deg, mc, wire,
                   clock, snap, snap_view, outdated, storeVars, sim, strat>>

SpecSanitize == InitSanitize /\ [][Sanitize]_vars

-----------------------------------------------------------------------------
(* The state_update broadcasts of the simulation service                   *)
(* wire.state is the store's RaceState with its fields as Python values,   *)
(* wire.last the payload last handed to ConnectionManager.broadcast, with   *)
(* the dictionary to_dict returned for it.  Of the thirty fields to_dict   *)
(* copies per driver the model keeps ten, of every type that occurs.       *)

\* DriverState(driver_number = ..., position = ...) as extract_race_data builds it
LoadedDriver(number, position) ==
    [driver_number |-> PyInt(number), name_acronym |-> PyStr("DRV"),
     position |-> PyInt(position), gap_to_leader |-> PyNone, last_lap_time |-> PyNone,
     in_pit |-> PyBool(FALSE), deg_slope |-> PyFloat(0), cliff_risk |-> PyFloat(0),
     predicted_pace |-> PyList(<<>>), pit_confidence |-> PyFloat(0)]

\* RaceState(session_key = 0): the state of a store created without one
FreshState ==
    [session_key |-> PyInt(0), session_name |-> PyStr(""), track_name |-> PyStr(""),
     country |-> PyStr(""), current_lap |-> PyInt(0), total_laps |-> PyInt(0),
     timestamp |-> PyStr("2024-01-01T00:00:00"), drivers |-> <<>>, flags |-> PyList(<<>>),
     safety_car |-> PyBool(FALSE), virtual_safety_car |-> PyBool(FALSE),
     red_flag |-> PyBool(FALSE), recent_pits |-> PyList(<<>>),
     recent_messages |-> PyList(<<>>),
     weather |-> PyDict(("track_temp" :> PyFloat(0)) @@ ("is_raining" :> PyBool(FALSE))),
     track_status |-> PyStr("GREEN"), track_config |-> PyNone, drs_zones |-> PyList(<<>>)]

\* the RaceState _load_data resets the store to: the drivers as extracted,
\* the track geometry and the weather as FastF1 delivered them
LoadedState ==
    [FreshState EXCEPT
        !.session_key = PyInt(2024019999), !.session_name = PyStr("Race"),
        !.total_laps = PyInt(50),
        !.drivers = (1 :> LoadedDriver(1, 2)) @@ (44 :> LoadedDriver(44, 1)),
        !.weather = PyDict(("track_temp" :> NaN) @@ ("is_raining" :> PyBool(FALSE))),
        !.track_config = PyDict("total_points" :> PyInt(0))]

\* RaceState.get_drivers_sorted(): by (position, or 999 without one; driver_number)
get_drivers_sorted(state) ==
    LET key(n) == IF state.drivers[n].position.v > 0 THEN state.drivers[n].position.v ELSE 999
        before(a, b) == key(a) < key(b) \/ (key(a) = key(b) /\ a < b)
        rank(n) == 1 + Cardinality({a \in DOMAIN state.drivers : before(a, n)})
    IN  [i \in 1..Cardinality(DOMAIN state.drivers) |->
            state.drivers[CHOOSE n \in DOMAIN state.drivers : rank(n) = i]]

\* the keys to_dict copies from the state, and for each driver
StateKeys ==
    {"session_key", "session_name", "track_name", "country", "current_lap", "total_laps",
     "timestamp", "flags", "safety_car", "virtual_safety_car", "red_flag",
     "recent_pits", "recent_messages"}

\* RaceStateStore.to_dict()
to_dict(state) ==
    LET sorted == get_drivers_sorted(state)
    IN  PyDict([k \in StateKeys |-> state[k]]
               @@ ("drivers" :> PyList([i \in DOMAIN sorted |->
                                           PyDict([f \in DOMAIN sorted[i] |-> sorted[i][f]])])))

\* mutant of safe_data: the dictionary is broadcast as it is
safe_data_as_is(data) == data

\* safe_data = sanitize_for_json(self.state.store.to_dict())
safe_data(data) == sanitize_for_json(data)

NoPayload == [type |-> "none"]

\* {"type": "state_update", "data": data}, built from the dictionary of
Payload(data, of) == [type |-> "state_update", data |-> data, of |-> of]

\* what a driver's degradation model returns as its slope and what the gap
\* table holds for a driver: neither is checked to be finite
Slopes == {PyFloat(50), NaN, Infinity, NegInfinity}
LapGaps == {PyFloat(0), PyFloat(1500), NaN}

InitBroadcast ==
    /\ track_history = FALSE
    /\ outdated = FALSE
    /\ InitStore(Drivers, MaxLap)
    /\ InitIdle
    /\ strat = NoCall
    /\ deg = ModelManager
    /\ mc = NoCall
    /\ san = NoCall
    /\ estimator = NoEstimator
    /\ wire = [state |-> FreshState, last |-> NoPayload]

Broadcast(state, payload) ==
    /\ wire' = [state |-> state, last |-> payload]
    /\ UNCHANGED <<estimator, heap, store_state, history, update_count, track_history, deg, mc, san,
                   clock, snap, snap_view, outdated, storeVars, sim, strat>>

\* _load_data: the store is reset to the loaded session, and its
\* dictionary is broadcast as to_dict returned it
LoadData == Broadcast(LoadedState, Payload(to_dict(LoadedState), to_dict(LoadedState)))

\* _update_degradation: the results of a driver's model are written to the store
UpdateDegradation ==
    /\ wire.state.drivers # <<>>
    /\ \E n \in DOMAIN wire.state.drivers, slope \in Slopes :
        Broadcast([wire.state EXCEPT
                        !.drivers[n].deg_slope = slope,
                        !.drivers[n].predicted_pace =
                            PyList(<<IF slope.finite THEN PyFloat(90000 + slope.v) ELSE NaN>>)],
                  wire.last)

\* a frame of _animate_lap: the gaps of the lap are written, the store is
\* reset to the new state and its sanitised dictionary is broadcast
AnimateLap ==
    /\ wire.state.drivers # <<>>
    /\ \E gaps \in [DOMAIN wire.state.drivers -> LapGaps] :
        LET new_state == [wire.state EXCEPT
                            !.drivers = [n \in DOMAIN @ |->
                                            [@[n] EXCEPT !.gap_to_leader = gaps[n]]]]
        IN  Broadcast(new_state, Payload(safe_data(to_dict(new_state)), to_dict(new_state)))

NextBroadcast == LoadData \/ UpdateDegradation \/ AnimateLap

SpecBroadcast == InitBroadcast /\ [][NextBroadcast]_vars

-----------------------------------------------------------------------------
(* SpecLapLoop: the lap loop of _run_loop on a loaded session.  The store  *)
(* holds the drivers extract_race_data built, deg is the service's model   *)
(* manager and log the batches _process_lap has applied.                   *)

\* what the replay data hold for a driver in a lap: no lap record (the
\* driver has retired or is a lap down), a record without a lap time, or
\* a timed lap
LapOptions == {"absent", "untimed", "timed"}

\* the drivers in the order of the state's dictionary
DriverOrder == <<1, 2>>

\* laps_this_lap of _process_lap
laps_this_lap(current_lap, opt) ==
    LET rec(n) == IF opt[n] = "absent" THEN <<>>
                  ELSE <<LapData(n, current_lap, IF opt[n] = "timed" THEN 90 ELSE None)>>
    IN  rec(DriverOrder[1]) \o rec(DriverOrder[2])

\* _get_active_stints: every driver runs the race on one set of tyres
get_active_stints(current_lap) ==
    <<StintData(DriverOrder[1], 1, 1), StintData(DriverOrder[2], 1, 1)>>

\* the batch _process_lap applies
lap_batch(current_lap, opt, now) ==
    UpdateBatch(current_lap, now, <<>>, laps_this_lap(current_lap, opt), <<>>, <<>>,
                get_active_stints(current_lap), <<>>, <<>>)

\* the driver's last lap time is fed to the model whatever lap it is of
feeds_always(driver, batch) ==
    /\ ~(driver.position = None \/ driver.position = 0)
    /\ Truthy(driver.last_lap_time) /\ driver.last_lap_time > 0

\* the guards of _update_degradation before update_driver is called
feeds_estimator(driver) ==
    /\ ~(driver.position = None \/ driver.position = 0)
    /\ Truthy(driver.last_lap_time) /\ driver.last_lap_time > 0

\* the arguments of the call of update_driver
degradation_args(driver) ==
    [driver_number |-> driver.driver_number, lap_in_stint |-> driver.lap_in_stint,
     lap_time |-> driver.last_lap_time, stint_number |-> driver.stint_number,
     compound |-> IF driver.compound = NoneStr \/ driver.compound = ""
                  THEN "MEDIUM" ELSE driver.compound,
     is_valid |-> TRUE]

\* the loop of _update_degradation over the drivers from the i-th on: the
\* model manager after it
RECURSIVE update_degradation(_, _, _)
update_degradation(mm, drivers, i) ==
    IF i > Len(DriverOrder) THEN mm
    ELSE LET n == DriverOrder[i]
             c == degradation_args(drivers[n])
             m == get_or_create(mm.models, n)
         IN  IF Has(drivers, n) /\ feeds_estimator(drivers[n])
             THEN update_degradation(
                      [models |-> (n :> update_driver(m, c)) @@ mm.models,
                       calls |-> Append(mm.calls, [fn |-> "update_driver", args |-> c,
                                                   before |-> stint_checked(m, c)])],
                      drivers, i + 1)
             ELSE update_degradation(mm, drivers, i + 1)

\* the drivers after the frames of _animate_lap: with an empty gap table
\* a classified driver is 0.0 behind the leader
calculate_driver_states(drivers) ==
    [n \in DOMAIN drivers |->
        [drivers[n] EXCEPT !.gap_to_leader =
            IF drivers[n].position = 0 \/ drivers[n].position = None THEN None ELSE 0]]

\* the store after _load_data: the drivers with their classified
\* positions, 0 for a driver who was not classified
InitLapLoop ==
    /\ track_history = FALSE
    /\ outdated = FALSE
    /\ \E classified \in {{1}, {1, 2}} :
          LET n == InitialState(Drivers, MaxLap)
              h == [n.h EXCEPT ![n.s.drivers].d =
                        [k \in Drivers |->
                            [DriverState(k) EXCEPT
                                !.position = IF k \in classified THEN k ELSE 0]]]
          IN  /\ heap = h
              /\ store_state = n.s
              /\ snap = n.s
              /\ snap_view = View(h, n.s)
              /\ history = <<>>
              /\ update_count = 0
              /\ clock = 0
    /\ InitIdle
    /\ strat = NoCall
    /\ deg = ModelManager
    /\ mc = NoCall
    /\ wire = <<>>
    /\ san = NoCall
    /\ estimator = NoEstimator

\* await self._process_lap(current_lap): the batch of the lap is applied,
\* the degradation models are updated from the state, and the resets of
\* _update_degradation and _animate_lap install copies of the state
ProcessLap ==
    \E opt \in [Drivers -> LapOptions] :
        LET current_lap == store_state.current_lap + 1
            batch == lap_batch(current_lap, opt, clock)
            applied == apply_update_batch(heap, store_state, batch, clock)
            drivers == applied.h[applied.s.drivers].d
            a == Alloc(applied.h, DictObj(calculate_driver_states(drivers)))
            c == Collect([h |-> a.h,
                          s |-> [applied.s EXCEPT !.drivers = a.r,
                                                  !.current_lap = current_lap]],
                         <<>>, snap)
        IN  /\ current_lap <= store_state.total_laps
            /\ heap' = c.heap
            /\ store_state' = c.state
            /\ snap' = c.snap
            /\ history' = c.history
            /\ update_count' = 0
            /\ deg' = update_degradation(deg, drivers, 1)
            /\ log' = Append(log, [kind |-> "apply", batch |-> batch, key |-> None,
                                   now |-> clock])
            /\ UNCHANGED <<estimator, track_history, mc, wire, san, sim, strat, clock,
                           snap_view, outdated, subscribers, pc, op, iter, ret, hung,
                           delivered, round>>

SpecLapLoop == InitLapLoop /\ [][ProcessLap]_vars

-----------------------------------------------------------------------------
(* Properties of the reducers, under Spec                                  *)

\* what get() shows
state_view == View(heap, store_state)

\* the batches whose only content is lap records below the current_lap of
\* the drivers they name
StaleLapBatches(view) ==
    {b \in LapBatches :
        /\ b.current_lap = None
        /\ b.stints = <<>>
        /\ b.laps # <<>>
        /\ \A i \in 1..Len(b.laps) :
              /\ Has(view.drivers, b.laps[i].driver_number)
              /\ b.laps[i].lap_number
                   < view.drivers[b.laps[i].driver_number].current_lap}

\* C7: applying a batch whose only content is lap records with a lap_number
\* below the driver's current_lap gives a state equal to the input state in
\* every field.
C7_StaleBatchLeavesStateUnchanged ==
    \A b \in StaleLapBatches(state_view) :
        \E r \in {apply_update_batch(heap, store_state,
                                      [b EXCEPT !.timestamp = clock], clock)} :
            View(r.h, r.s) = state_view

\* C8: from one applied batch to the next, the tyre_age of a driver whose
\* stint_number stays the same does not decrease.
C8_TyreAgeNeverDecreasesInStint ==
    [][\A n \in DOMAIN state_view.drivers :
          (/\ n \in DOMAIN state_view'.drivers
           /\ state_view'.drivers[n].stint_number
                = state_view.drivers[n].stint_number)
          => state_view'.drivers[n].tyre_age >= state_view.drivers[n].tyre_age]_vars

\* C9: in every reachable state every driver has
\* lap_in_stint = current_lap - stint_start_lap + 1 and lap_in_stint >= 0.
C9_LapInStintFormula ==
    \A n \in DOMAIN state_view.drivers :
        LET d == state_view.drivers[n]
        IN  /\ d.lap_in_stint = d.current_lap - d.stint_start_lap + 1
            /\ d.lap_in_stint >= 0

\* C10: from one applied batch to the next, RaceState.current_lap does not
\* decrease, every driver stays in the state and no driver's current_lap
\* decreases, also when the batch carries older lap numbers.
C10_CurrentLapNeverDecreases ==
    [][/\ state_view'.current_lap >= state_view.current_lap
       /\ \A n \in DOMAIN state_view.drivers :
             /\ n \in DOMAIN state_view'.drivers
             /\ state_view'.drivers[n].current_lap
                  >= state_view.drivers[n].current_lap]_vars

\* C10: a batch with an older lap number has just been applied to a state
\* that is past lap 1, for the race and for driver 1
C10_Witness ==
    /\ outdated
    /\ state_view.current_lap > 1
    /\ Has(state_view.drivers, 1)
    /\ state_view.drivers[1].current_lap > 1

\* C11: in every reachable state RaceState.current_lap is at most
\* RaceState.total_laps.
C11_CurrentLapWithinTotalLaps ==
    state_view.current_lap <= state_view.total_laps

-----------------------------------------------------------------------------
(* Properties of the store, under SpecStore and FairSpecStore              *)

\* apply_update_batch folded over the logged calls, in the order they
\* entered the critical section, from the initial or the last reset state
RECURSIVE FoldLog(_)
FoldLog(l) ==
    IF l = <<>> THEN InitialState(Drivers, MaxLap)
    ELSE LET e == l[Len(l)]
             before == FoldLog(SubSeq(l, 1, Len(l) - 1))
         IN  IF e.kind = "reset" THEN ResetState(before.h, e.key, e.now)
             ELSE apply_update_batch(before.h, before.s, e.batch, e.now)

\* C1: at every point of every interleaving, the state get() returns is the
\* fold of apply_update_batch over all the calls that have entered the
\* critical section so far, in that order: no batch is lost, applied twice
\* or visible partly applied.
C1_StateIsFoldOfWholeBatches ==
    \E f \in {FoldLog(log)} : state_view = View(f.h, f.s)

\* C1: a second apply() entered the critical section while the first one
\* was waiting for a subscriber
C1_Witness ==
    /\ Len(log) = 2
    /\ log[1].kind = "apply"
    /\ log[2].kind = "apply"
    /\ log[1].batch # log[2].batch
    /\ \E t, u \in Tasks :
          /\ op[t].version = 1
          /\ pc[t] = "in_callback"
          /\ op[u].version = 2

\* C2: a completed apply() has returned the state it computed and
\* published for its own batch.
C2_ApplyReturnsOwnState ==
    \A t \in Tasks :
        (pc[t] = "done" /\ op[t].kind = "apply") => ret[t].view = op[t].view

\* C3: every subscriber is called with the published states in publication
\* order, none of them twice, and once all calls have returned it has been
\* called with every published state.
C3_EveryStateDeliveredOnceInOrder ==
    \A c \in DOMAIN delivered :
        /\ \A i \in 1..(Len(delivered[c]) - 1) : delivered[c][i] < delivered[c][i + 1]
        /\ (\A t \in Tasks : pc[t] \in {"idle", "done"})
              => delivered[c] = [i \in 1..Len(log) |-> i]

\* C4: an exception raised by a subscriber never leaves the call; the call
\* returns after every subscriber has been called once, with the state the
\* call published unless another call has published since; the step in
\* which the exception is handled changes neither the state nor the
\* subscriber list.
C4_SubscriberExceptionIsContained ==
    /\ [](\A t \in Tasks :
            /\ pc[t] # "raised"
            /\ (pc[t] = "done" /\ round[t].raised # {})
                  => /\ [i \in 1..Len(round[t].called) |-> round[t].called[i].cb]
                          = subscribers
                     /\ ret[t].version = op[t].version
                          => \A i \in 1..Len(round[t].called) :
                                round[t].called[i].version = op[t].version)
    /\ [][(\E t \in Tasks : round[t].raised # round'[t].raised
                              /\ round[t].raised \subseteq round'[t].raised)
            => /\ store_state' = store_state
               /\ state_view' = state_view
               /\ subscribers' = subscribers]_vars

\* C4: the first subscriber raised, the second one was still called and
\* the call has returned
C4_Witness ==
    \E t \in Tasks :
        /\ pc[t] = "done"
        /\ "c1" \in round[t].raised
        /\ Len(round[t].called) = 2
        /\ round[t].called[2].cb = "c2"

\* C5: an apply() or reset() that is waiting for a subscriber eventually
\* returns to its caller.
C5_CallEventuallyReturns ==
    \A t \in Tasks : (pc[t] = "in_callback") ~> (pc[t] = "done")

-----------------------------------------------------------------------------
(* Frame property of the reducers, under SpecFrame                         *)

\* C6: the RaceState object a reader obtained from get() has, after every
\* later apply(), the drivers map and driver fields, flags, recent_pits and
\* recent_messages it had when get() returned.
C6_SnapshotUnchangedByApply ==
    View(heap, snap) = snap_view

\* C6: the reader called get() after an apply(), and a later apply() has
\* replaced the drivers, flags, recent_pits and recent_messages of the store
C6_Witness ==
    /\ snap_view.drivers # InitialState({2}, MaxLap).h[1].d
    /\ snap_view.drivers # InitialState(Drivers, MaxLap).h[1].d
    /\ state_view.drivers # snap_view.drivers
    /\ state_view.flags # snap_view.flags
    /\ state_view.recent_pits # snap_view.recent_pits
    /\ state_view.recent_messages # snap_view.recent_messages

-----------------------------------------------------------------------------
(* Properties of the timing feeds, under SpecFrame                         *)

\* position and interval records of driver n
PositionRecs(n) == {PositionData(n, p, t) : p \in 1..2, t \in 0..MaxTime}
IntervalRecs(n) == {IntervalData(n, g, g, t) : g \in 1..2, t \in 0..MaxTime}

\* the contents of the RaceState of hs = [h, s]
ViewOf(hs) == View(hs.h, hs.s)

\* what the timing feeds write to a driver
timing(d) == <<d.position, d.gap_to_leader, d.gap_to_ahead>>

\* position, gap_to_leader and gap_to_ahead of driver n after the batches
\* of the sequence bs are applied to the state of the store, one by one
RECURSIVE timing_after(_, _, _)
timing_after(hs, bs, n) ==
    IF bs = <<>>
    THEN timing(ViewOf(hs).drivers[n])
    ELSE timing_after(apply_update_batch(hs.h, hs.s, Head(bs), 0), Tail(bs), n)

PositionBatch(recs) == UpdateBatch(None, 0, <<>>, <<>>, recs, <<>>, <<>>, <<>>, <<>>)
IntervalBatch(recs) == UpdateBatch(None, 0, <<>>, <<>>, <<>>, recs, <<>>, <<>>, <<>>)

\* C12: a position or interval record whose timestamp is not newer than
\* that of a record already applied for the driver changes neither the
\* driver's position nor its gaps, whether it comes later in the same batch
\* or in a later batch.
C12_OlderRecordIgnored ==
    \A n \in DOMAIN state_view.drivers :
        /\ \A r1, r2 \in PositionRecs(n) :
              r2.timestamp <= r1.timestamp
              => \E one \in {timing_after([h |-> heap, s |-> store_state],
                                          <<PositionBatch(<<r1>>)>>, n)} :
                    /\ timing_after([h |-> heap, s |-> store_state],
                                    <<PositionBatch(<<r1, r2>>)>>, n) = one
                    /\ timing_after([h |-> heap, s |-> store_state],
                                    <<PositionBatch(<<r1>>), PositionBatch(<<r2>>)>>, n) = one
        /\ \A r1, r2 \in IntervalRecs(n) :
              r2.timestamp <= r1.timestamp
              => \E one \in {timing_after([h |-> heap, s |-> store_state],
                                          <<IntervalBatch(<<r1>>)>>, n)} :
                    /\ timing_after([h |-> heap, s |-> store_state],
                                    <<IntervalBatch(<<r1, r2>>)>>, n) = one
                    /\ timing_after([h |-> heap, s |-> store_state],
                                    <<IntervalBatch(<<r1>>), IntervalBatch(<<r2>>)>>, n) = one

\* the batch that carries one record of the given kind for each driver
\* number of ns, in that order
KindBatch(kind, ns) ==
    CASE kind = "laps" ->
           UpdateBatch(None, 0, <<>>, [i \in 1..Len(ns) |-> LapData(ns[i], 1, 90)],
                       <<>>, <<>>, <<>>, <<>>, <<>>)
      [] kind = "positions" ->
           PositionBatch([i \in 1..Len(ns) |-> PositionData(ns[i], i, 0)])
      [] kind = "intervals" ->
           IntervalBatch([i \in 1..Len(ns) |-> IntervalData(ns[i], i, i, 0)])
      [] kind = "stints" ->
           UpdateBatch(None, 0, <<>>, <<>>, <<>>, <<>>,
                       [i \in 1..Len(ns) |-> StintData(ns[i], 2, 1)], <<>>, <<>>)

\* the drivers map after the batch is applied to the state of the store
drivers_after(batch) ==
    ViewOf(apply_update_batch(heap, store_state, batch, clock)).drivers

\* C13: a lap, position, interval or stint record for a driver number that
\* state.drivers does not hold is skipped: the drivers map after a batch
\* with such a record before the record of a known driver is the map after
\* the batch with the known driver's record alone.
C13_AbsentDriverRecordSkipped ==
    \A kind \in {"laps", "positions", "intervals", "stints"} :
        \A n \in Drivers \ DOMAIN state_view.drivers :
            \A m \in DOMAIN state_view.drivers :
                drivers_after(KindBatch(kind, <<n, m>>))
                    = drivers_after(KindBatch(kind, <<m>>))

-----------------------------------------------------------------------------
(* Properties of the flags, under SpecControl                              *)

\* C14: in every state reached by race-control messages, red_flag implies
\* that GREEN is not in the flags list.
C14_RedFlagExcludesGreen ==
    state_view.red_flag => ~InList(state_view.flags, "GREEN")

\* C14: the track was green, then the red flag came and a yellow after it
C14_Witness ==
    /\ state_view.red_flag
    /\ state_view.flags = <<"RED", "YELLOW">>
    /\ \E i \in 1..Len(state_view.recent_messages) :
          state_view.recent_messages[i].flag = "GREEN"

-----------------------------------------------------------------------------
(* Properties of the recent-event lists, under SpecEvents                  *)

\* the pit records offered so far, as apply_pits writes them
OfferedPits ==
    {[driver_number |-> log[i].batch.pits[j].driver_number,
      lap_number |-> log[i].batch.pits[j].lap_number,
      pit_duration |-> log[i].batch.pits[j].pit_duration,
      timestamp |-> isoformat(log[i].batch.pits[j].timestamp)] :
        i \in 1..Len(log), j \in 1..3}

\* the race-control messages offered so far, by batch and place in the batch
OfferedMessages == (1..Len(log)) \X (1..5)

OfferedStamp(e) == isoformat(log[e[1]].batch.race_control[e[2]].timestamp)

\* kept holds size entries, and every offered timestamp that is newer than
\* some kept entry is kept as often as it was offered
KeepsNewest(kept, size, stamps, offered(_)) ==
    /\ Len(kept) = size
    /\ \A i \in 1..Len(kept) : kept[i].timestamp \in stamps
    /\ \A v \in stamps :
          (\E i \in 1..Len(kept) : StrLess(kept[i].timestamp, v))
              => Cardinality({i \in 1..Len(kept) : kept[i].timestamp = v})
                     = offered(v)

\* C15: over any sequence of batches recent_pits holds at most 10 entries
\* and no two with the same (driver_number, lap_number), recent_messages
\* holds at most 20 entries, and both lists hold the newest entries by
\* timestamp of all that were offered.
C15_RecentListsBoundedNewest ==
    LET rp == state_view.recent_pits
        rm == state_view.recent_messages
        pitsAt(v) == Cardinality({r \in OfferedPits : r.timestamp = v})
        msgsAt(v) == Cardinality({e \in OfferedMessages : OfferedStamp(e) = v})
    IN  /\ Len(rp) <= 10
        /\ Len(rm) <= 20
        /\ \A i, j \in 1..Len(rp) :
              (/\ rp[i].driver_number = rp[j].driver_number
               /\ rp[i].lap_number = rp[j].lap_number) => i = j
        /\ \A i \in 1..Len(rp) : rp[i] \in OfferedPits
        /\ KeepsNewest(rp, Min(RecentPitsKept, Cardinality(OfferedPits)),
                       {r.timestamp : r \in OfferedPits}, pitsAt)
        /\ KeepsNewest(rm, Min(RecentMessagesKept, Cardinality(OfferedMessages)),
                       {OfferedStamp(e) : e \in OfferedMessages}, msgsAt)

\* C15: both lists are full and have dropped entries, a lap was offered
\* twice, and the last batch came late, after the batch of a later lap
C15_Witness ==
    /\ Len(state_view.recent_pits) = 10
    /\ Cardinality(OfferedPits) > 10
    /\ Len(state_view.recent_messages) = 20
    /\ Cardinality(OfferedMessages) > 20
    /\ \E i, j \in 1..Len(log) : i < j /\ log[i].batch = log[j].batch
    /\ \E i \in 1..Len(log) :
          log[i].batch.current_lap > log[Len(log)].batch.current_lap

-----------------------------------------------------------------------------
(* Properties of the simulation service, under SpecSim                     *)

alive == {i \in 1..Len(sim.loops) : sim.loops[i].pc # "done"}

C17_AtMostOneLoopTask == Cardinality(alive) <= 1

-----------------------------------------------------------------------------
(* Properties of the strategy functions, under SpecStrategy                *)

called == strat.fn = "evaluate_strategy" /\ strat.done

\* C18: find_optimal_window returns the all-zero window exactly when
\* total_laps - current_lap <= min_stint_laps, and otherwise a window with
\* min_lap <= ideal_lap <= max_lap, min_lap >= current_lap and
\* max_lap <= total_laps.
C18_WindowDegenerateOrOrdered ==
    called =>
        \E w \in {strat.result.pit_window} :
            IF strat.total_laps - strat.current_lap <= min_stint_laps
            THEN w.min_lap = 0 /\ w.max_lap = 0 /\ w.ideal_lap = 0
            ELSE /\ ~(w.min_lap = 0 /\ w.max_lap = 0 /\ w.ideal_lap = 0)
                 /\ w.min_lap <= w.ideal_lap
                 /\ w.ideal_lap <= w.max_lap
                 /\ w.min_lap >= strat.current_lap
                 /\ w.max_lap <= strat.total_laps

\* C18: a window with the ideal lap strictly between min_lap and max_lap
\* has been returned
C18_Witness ==
    /\ called
    /\ strat.total_laps - strat.current_lap > min_stint_laps
    /\ strat.result.pit_window.min_lap < strat.result.pit_window.ideal_lap
    /\ strat.result.pit_window.ideal_lap < strat.result.pit_window.max_lap

\* C19: when no earlier rule of the decision order applies and current_lap
\* is past window.max_lap, evaluate_strategy returns PIT_NOW with
\* confidence 0.7.
C19_PastWindowIsPitNow ==
    (/\ called
     /\ \E w \in {strat.result.pit_window} :
           /\ ~(strat.safety_car /\ w.min_lap <= strat.current_lap
                                 /\ strat.current_lap <= w.max_lap)
           /\ ~(strat.result.undercut_threat /\ strat.current_lap >= w.min_lap)
           /\ strat.current_lap # w.ideal_lap
           /\ strat.current_lap > w.max_lap
     /\ strat.cliff_risk <= 850)
        => /\ strat.result.rec.recommendation = "PIT_NOW"
           /\ strat.result.rec.confidence = 700

\* C20: there are calls with current_lap >= 1 for which evaluate_strategy
\* returns STAY_OUT while the rival ahead is no undercut threat, and PIT_NOW
\* with confidence 0.8 once gap_to_ahead and ahead_deg alone are changed so
\* that the threat is detected.
C20_UndercutUpgradeExists ==
    \E c \in StrategyCalls, g \in Gaps, d \in AheadDegs :
        /\ c.fn = strat.fn
        /\ c.current_lap >= 1
        /\ ~undercut_threat(c)
        /\ undercut_threat([c EXCEPT !.gap_to_ahead = g, !.ahead_deg = d])
        /\ evaluate_strategy(c).rec.recommendation = "STAY_OUT"
        /\ evaluate_strategy([c EXCEPT !.gap_to_ahead = g, !.ahead_deg = d]).rec
               = [recommendation |-> "PIT_NOW", confidence |-> 800]

\* C21: when safety_car is true and current_lap lies inside
\* [window.min_lap, window.max_lap] of the window computed for the call,
\* evaluate_strategy returns PIT_NOW with confidence 0.95, whatever
\* cliff_risk and the other arguments are.
C21_SafetyCarInWindowIsPitNow ==
    (/\ called
     /\ strat.safety_car
     /\ strat.result.pit_window.min_lap <= strat.current_lap
     /\ strat.current_lap <= strat.result.pit_window.max_lap)
        => strat.result.rec = [recommendation |-> "PIT_NOW", confidence |-> 950]

\* C21: the safety car is out on a lap inside the window, with a cliff
\* risk that alone would give 0.9
C21_Witness ==
    /\ called
    /\ strat.safety_car
    /\ strat.result.pit_window.min_lap <= strat.current_lap
    /\ strat.current_lap <= strat.result.pit_window.max_lap
    /\ strat.cliff_risk = 900
    /\ strat.result.rec.confidence = 950

\* C22: for every call with cliff_risk > 0.85, whatever the window and the
\* other arguments, should_pit_now says to pit and evaluate_strategy
\* returns PIT_NOW with confidence >= 0.8.
C22_CriticalCliffRiskIsPitNow ==
    (called /\ strat.cliff_risk > 850)
        => /\ should_pit_now(strat.current_lap, strat.result.pit_window,
                             strat.cliff_risk, FALSE, strat.safety_car).pit
           /\ strat.result.rec.recommendation = "PIT_NOW"
           /\ strat.result.rec.confidence >= 800

\* C22: cliff_risk is 0.9, no safety car, the lap is before the window and
\* is not the ideal lap: only the cliff rule says pit
C22_Witness ==
    /\ called
    /\ strat.cliff_risk = 900
    /\ ~strat.safety_car
    /\ strat.current_lap < strat.result.pit_window.min_lap
    /\ strat.result.rec = [recommendation |-> "PIT_NOW", confidence |-> 900]
-----------------------------------------------------------------------------
(* Properties of the degradation models, under SpecDegradation             *)

\* the last call made, the model it was made on, and that model now
last_call == deg.calls[Len(deg.calls)]
model_now == deg.models[last_call.args.driver_number]

\* the last call entered update with is_valid = False on a model that has a stint
invalid_lap ==
    /\ deg.calls # <<>>
    /\ ~last_call.args.is_valid
    /\ last_call.before.current_stint # NoStint

\* C23: DriverDegradationModel.update with is_valid = false appends the lap
\* time to the current stint's lap times and leaves the estimator as it
\* was: its prior, what was fed to it (hence theta and P), n_updates and
\* the deg_slope read from it are the same after the call as before
C23_InvalidLapLeavesEstimator ==
    invalid_lap =>
        /\ model_now.current_stint.lap_times
              = Append(last_call.before.current_stint.lap_times, last_call.args.lap_time)
        /\ model_now.current_stint.rls = last_call.before.current_stint.rls
        /\ get_deg_slope(model_now) = get_deg_slope(last_call.before)
        /\ model_now.stint_history = last_call.before.stint_history

\* an invalid lap with a positive lap time arrived on a stint whose
\* estimator had already been fed one observation
C23_Witness ==
    /\ invalid_lap
    /\ last_call.args.lap_time > 0
    /\ last_call.before.current_stint.rls.n_updates = 1
    /\ Len(model_now.current_stint.lap_times) = 2

\* the calls made for driver d, in order
calls_for(d) ==
    LET for_d(c) == c.args.driver_number = d IN SelectSeq(deg.calls, for_d)

\* the stints the calls cs reported, in order, each with the lap times reported for it
RECURSIVE reported(_)
reported(cs) ==
    IF cs = <<>> THEN <<>>
    ELSE LET g == reported(SubSeq(cs, 1, Len(cs) - 1))
             c == cs[Len(cs)].args
         IN  IF g # <<>> /\ g[Len(g)].stint_number = c.stint_number
             THEN [g EXCEPT ![Len(g)].lap_times = Append(@, c.lap_time)]
             ELSE Append(g, [stint_number |-> c.stint_number, lap_times |-> <<c.lap_time>>])

\* driver d was only ever updated through ModelManager.update_driver
only_update_driver(d) ==
    /\ calls_for(d) # <<>>
    /\ \A i \in 1..Len(calls_for(d)) : calls_for(d)[i].fn = "update_driver"

\* C24: after any sequence of update_driver calls for a driver, the model
\* has a current stint, active, numbered as in the last call; stint_history
\* holds, in order, one inactive stint per change of stint number; and
\* every stint holds exactly the lap times that were reported for it
C24_OneStintPerChange ==
    \A d \in DOMAIN deg.models :
        only_update_driver(d) =>
            LET m == deg.models[d]
                stints == Append(m.stint_history, m.current_stint)
            IN  /\ m.current_stint # NoStint
                /\ m.current_stint.is_active
                /\ \A i \in 1..Len(m.stint_history) : ~m.stint_history[i].is_active
                /\ [i \in 1..Len(stints) |->
                        [stint_number |-> stints[i].stint_number,
                         lap_times |-> stints[i].lap_times]] = reported(calls_for(d))

\* a driver went stint 1, stint 2 and back to stint 1
C24_Witness ==
    \E d \in DOMAIN deg.models :
        /\ only_update_driver(d)
        /\ Len(deg.models[d].stint_history) = 2
        /\ deg.models[d].current_stint.stint_number = 1
-----------------------------------------------------------------------------
(* Properties of the Monte Carlo simulator, under SpecMonteCarlo           *)

returned_outcome == mc.fn = "simulate_race" /\ mc.done

\* a quotient num / den lies in [lo, hi]
Within(q, lo, hi) == q.den > 0 /\ lo * q.den <= q.num /\ q.num <= hi * q.den

\* C25: with n_simulations >= 1 and N competitors every trial's finishing
\* position lies in 1..N+1; expected_position, best_case and worst_case lie
\* in [1, N+1] with best_case <= expected_position <= worst_case; prob_win,
\* prob_podium and prob_points lie in [0, 1]
C25_PositionsAndStatisticsInRange ==
    returned_outcome =>
        LET field == Len(mc.competitors) + 1
            r == mc.result
        IN  /\ \A i \in DOMAIN mc.positions : mc.positions[i] \in 1..field
            /\ r.best_case \in 1..field
            /\ r.worst_case \in 1..field
            /\ Within(r.expected_position, r.best_case, r.worst_case)
            /\ Within(r.prob_win, 0, 1)
            /\ Within(r.prob_podium, 0, 1)
            /\ Within(r.prob_points, 0, 1)

\* over the trials of one call the driver finished first and last of three cars
C25_Witness ==
    /\ returned_outcome
    /\ Len(mc.competitors) = 2
    /\ mc.result.best_case = 1
    /\ mc.result.worst_case = 3
    /\ mc.result.prob_win.num > 0
    /\ mc.result.prob_win.num < mc.result.prob_win.den

\* C26: for n_simulations > 100 trial i is run with seed base_seed + i, so
\* the list of positions is a function of the arguments and the base seed:
\* two calls with the same arguments and base seed yield the same positions
\* and the same OutcomeDistribution
C26_SeededTrialsReproducible ==
    (returned_outcome /\ mc.n_simulations > parallel_threshold) =>
        /\ mc.positions = seeded_positions(mc, mc.base_seed, mc.n_simulations)
        /\ mc.result = calculate_statistics(
                            seeded_positions(mc, mc.base_seed, mc.n_simulations),
                            mc.n_simulations)

\* C27: when the pool fails, at its creation or after any number of
\* collected results, the call still returns: all n_simulations trials are
\* run sequentially on the caller's generator and the OutcomeDistribution
\* is built from exactly these n_simulations positions, none of them taken
\* from what the pool had delivered
C27_PoolFailureFallsBackToSequential ==
    (returned_outcome /\ mc.path = "fallback") =>
        LET sequential == simulate_sequential_legacy(
                              mc, drawn(mc.g), mc.n_simulations)
        IN  /\ Len(mc.positions) = mc.n_simulations
            /\ mc.positions = sequential
            /\ mc.result = calculate_statistics(sequential, mc.n_simulations)

\* the pool failed after 50 results, and the driver's position was not the
\* same in every trial of the sequential run
C27_Witness ==
    /\ returned_outcome
    /\ mc.path = "fallback"
    /\ Len(mc.collected) = 50
    /\ mc.positions # mc.collected \o SubSeq(mc.positions, 51, mc.n_simulations)
    /\ mc.result.best_case < mc.result.worst_case
-----------------------------------------------------------------------------
(* Properties of sanitize_for_json, under SpecSanitize                     *)

\* Python's ==, on values that are no containers: a number equals the numpy
\* scalar of the same value, nan equals nothing
SameAtom(a, b) ==
    LET integral(x) == x.t \in {"int", "np.int64"}
        floating(x) == x.t \in {"float", "np.float64"}
    IN  \/ integral(a) /\ integral(b) /\ a.v = b.v
        \/ floating(a) /\ floating(b) /\ a.finite /\ b.finite /\ a.v = b.v
        \/ ~integral(a) /\ ~floating(a) /\ a = b

\* res has the shape of obj, None where obj has a float that is not finite,
\* and an equal value everywhere else
RECURSIVE Sanitized(_, _)
Sanitized(obj, res) ==
    CASE obj.t = "dict" ->
            /\ res.t = "dict"
            /\ DOMAIN res.entries = DOMAIN obj.entries
            /\ \A k \in DOMAIN obj.entries : Sanitized(obj.entries[k], res.entries[k])
      [] obj.t = "list" ->
            /\ res.t = "list"
            /\ Len(res.items) = Len(obj.items)
            /\ \A i \in DOMAIN obj.items : Sanitized(obj.items[i], res.items[i])
      [] obj.t \in {"float", "np.float64"} /\ ~obj.finite -> res = PyNone
      [] OTHER -> SameAtom(obj, res)

\* C28: sanitize_for_json returns a structure of the same shape in which
\* every NaN, +Infinity and -Infinity at any nesting depth of dicts and
\* lists is replaced by None and every other value is unchanged
C28_NonFiniteBecomesNone ==
    (san.fn = "sanitize_for_json" /\ san.done) => Sanitized(san.obj, san.result)

\* a dict in a list in a dict, holding -Infinity next to a finite float
C28_Witness ==
    /\ san.fn = "sanitize_for_json"
    /\ san.done
    /\ san.obj = PyDict("value" :> PyList(<<PyDict(("bad_value" :> NegInfinity)
                                                   @@ ("good_value" :> PyFloat(123456)))>>))
    /\ san.result = PyDict("value" :> PyList(<<PyDict(("bad_value" :> PyNone)
                                                      @@ ("good_value" :> PyFloat(123456)))>>))
-----------------------------------------------------------------------------
(* Properties of the broadcasts, under SpecBroadcast                       *)

\* no float that is not finite anywhere in the value
RECURSIVE AllFinite(_)
AllFinite(obj) ==
    CASE obj.t = "dict" -> \A k \in DOMAIN obj.entries : AllFinite(obj.entries[k])
      [] obj.t = "list" -> \A i \in DOMAIN obj.items : AllFinite(obj.items[i])
      [] obj.t \in {"float", "np.float64"} -> obj.finite
      [] OTHER -> TRUE

C30_ToDictHasTrackKeys ==
    {"track_config", "track_status", "drs_zones", "weather", "drivers"}
        \subseteq DOMAIN to_dict(wire.state).entries

-----------------------------------------------------------------------------
(* The RLS estimator, numerically (rls.py)                                 *)
(*                                                                         *)
(* A float is a fixed-point number: the integer n stands for n / Scale.    *)
(* Sums are exact, products and quotients are rounded toward zero, so a    *)
(* result differs from the float64 one by a few units of 1 / Scale: far    *)
(* less than the tolerances the estimator is held to.  Feature vectors     *)
(* hold whole numbers (1.0 and the lap in the stint) and are kept as       *)
(* integers.                                                               *)
(***************************************************************************)
MaxStintLaps == 20
Scale == 1000 * 1000

Abs(n) == IF n < 0 THEN -n ELSE n

Sgn(n) == IF n < 0 THEN -1 ELSE 1

\* x * y / Scale for naturals, by thousands, the product itself never being
\* formed: it would leave the integer width
MulScale(x1, x0, y1, y0) ==
    x1 * y1 + ((x1 * y0) \div 1000) + ((x0 * y1) \div 1000)
        + ((((x1 * y0) % 1000) + ((x0 * y1) % 1000) + ((x0 * y0) \div 1000)) \div 1000)

\* the float product a * b, rounded toward zero
fmul(a, b) ==
    Sgn(a) * Sgn(b) * MulScale(Abs(a) \div 1000, Abs(a) % 1000, Abs(b) \div 1000, Abs(b) % 1000)

\* d * y <= 10 * r, neither product being formed
Fits(d, r, y) == d * (y \div 10) + ((d * (y % 10) + 9) \div 10) <= r

\* one step of the long division of a remainder r < y by y: the next decimal
\* digit of the quotient, and the new remainder
DivStep(h, y) ==
    LET d == CHOOSE k \in 0..9 : Fits(k, h.r, y) /\ (k = 9 \/ ~Fits(k + 1, h.r, y))
    IN  [q |-> 10 * h.q + d, r |-> 10 * (h.r - d * (y \div 10)) - d * (y % 10)]

\* x * Scale / y for naturals: the whole part and six decimal digits
DivScale(x, y) ==
    (x \div y) * Scale
        + DivStep(DivStep(DivStep(DivStep(DivStep(DivStep([q |-> 0, r |-> x % y], y), y), y), y), y), y).q

\* the float quotient a / b, rounded toward zero
fdiv(a, b) == Sgn(a) * Sgn(b) * DivScale(Abs(a), Abs(b))

\* mutant of initial_covariance: the estimator starts out sure of theta = 0
initial_covariance_unit == Scale

initial_covariance == 1000 * Scale

\* 1e-6
regularization == Scale \div 1000000

\* RLSEstimator(n_features=2, forgetting_factor); residual_sum is kept in
\* thousandths, the square of a residual of 90 s being beyond the width
RLSEstimator(forgetting_factor) ==
    [n_features |-> 2, lambda_ |-> forgetting_factor, reg |-> regularization,
     theta |-> <<0, 0>>,
     P |-> <<(<<initial_covariance, 0>>), (<<0, initial_covariance>>)>>,
     n_updates |-> 0, residual_sum |-> 0, last_residual |-> 0]

create_feature_vector(lap_in_stint) == <<1, lap_in_stint>>

\* theta @ x
RLSEstimator_predict(rls, x) == rls.theta[1] * x[1] + rls.theta[2] * x[2]

\* (P + P.T) / 2, then P += eye * reg
stabilised(P, reg) ==
    [i \in 1..2 |-> [j \in 1..2 |->
        ((P[i][j] + P[j][i]) \div 2) + (IF i = j THEN reg ELSE 0)]]

\* the statements of update after the gain K is known
updated(rls, x, error, K, xP) ==
    [rls EXCEPT
        !.theta = [i \in 1..2 |-> rls.theta[i] + fmul(K[i], error)],
        !.P = stabilised([i \in 1..2 |-> [j \in 1..2 |->
                  fdiv(rls.P[i][j] - fmul(K[i], xP[j]), rls.lambda_)]], rls.reg),
        !.n_updates = @ + 1,
        !.residual_sum = @ + fmul(error \div 1000, error),
        !.last_residual = error]

\* the Kalman gain K = Px / (denom + reg), with denom = lambda + x @ Px
kalman_gain(rls, x, Px) ==
    [i \in 1..2 |-> fdiv(Px[i], rls.lambda_ + x[1] * Px[1] + x[2] * Px[2] + rls.reg)]

\* P @ x
P_x(rls, x) == [i \in 1..2 |-> rls.P[i][1] * x[1] + rls.P[i][2] * x[2]]

\* x @ P
x_P(rls, x) == [j \in 1..2 |-> x[1] * rls.P[1][j] + x[2] * rls.P[2][j]]

\* RLSEstimator.update(x, y)
RLSEstimator_update(rls, x, y) ==
    updated(rls, x, y - RLSEstimator_predict(rls, x),
            kalman_gain(rls, x, P_x(rls, x)), x_P(rls, x))

get_base_pace(rls) == rls.theta[1]

RLSEstimator_get_deg_slope(rls) == rls.theta[2]

ForgettingFactors == {Scale, (95 * Scale) \div 100, (9 * Scale) \div 10}

SignalPaces == {80 * Scale, 90 * Scale, 100 * Scale}

SignalSlopes == {0, Scale \div 20, Scale \div 10}

\* an estimator as constructed, and the noiseless line it is going to be fed
InitEstimator ==
    /\ track_history = FALSE
    /\ outdated = FALSE
    /\ InitStore(Drivers, MaxLap)
    /\ InitIdle
    /\ strat = NoCall
    /\ deg = ModelManager
    /\ mc = NoCall
    /\ wire = <<>>
    /\ san = NoCall
    /\ estimator \in [rls : {RLSEstimator(f) : f \in ForgettingFactors},
                       base_pace : SignalPaces, deg_slope : SignalSlopes]

\* rls.update(create_feature_vector(lap), base_pace + deg_slope * lap) for
\* the next lap of the stint
FeedLap ==
    /\ estimator.rls.n_updates < MaxStintLaps
    /\ \E lap \in {estimator.rls.n_updates + 1} :
          estimator' = [estimator EXCEPT !.rls =
              RLSEstimator_update(@, create_feature_vector(lap),
                                  estimator.base_pace + estimator.deg_slope * lap)]
    /\ UNCHANGED <<heap, store_state, history, update_count, track_history, deg, mc, wire, san,
                   clock, snap, snap_view, outdated, storeVars, sim, strat>>

SpecEstimator == InitEstimator /\ [][FeedLap]_vars

-----------------------------------------------------------------------------
(* Properties of the RLS estimator                                         *)
(***************************************************************************)

\* the estimator was built with forgetting factor 1.0 and is fed y = 90 + 0.05 x
fed_claimed_line ==
    /\ estimator # NoEstimator
    /\ estimator.rls.lambda_ = Scale
    /\ estimator.base_pace = 90 * Scale
    /\ estimator.deg_slope = Scale \div 20

\* C31: after the noiseless line y = 90 + 0.05 x has been fed for the stint
\* laps 1..10, and again after 1..20, to an estimator with forgetting factor
\* 1.0, the base pace is within 0.1 of 90 and the slope within 0.01 of 0.05.
C31_RlsConvergesOnNoiselessLine ==
    (fed_claimed_line /\ estimator.rls.n_updates \in {10, 20}) =>
        /\ Abs(get_base_pace(estimator.rls) - 90 * Scale) < Scale \div 10
        /\ Abs(RLSEstimator_get_deg_slope(estimator.rls) - Scale \div 20) < Scale \div 100

C31_Witness == fed_claimed_line /\ estimator.rls.n_updates = 20

-----------------------------------------------------------------------------
(* Properties of the pit window and of the decision late in the race       *)
(***************************************************************************)

\* C32: when it is too late to pit (total_laps - current_lap <= 10, so the
\* window is the degenerate one) with current_lap >= 1, no safety car,
\* cliff_risk <= 0.85 and no undercut threat, evaluate_strategy returns
\* EXTEND_STINT when tyre_age < 15 and STAY_OUT otherwise, never PIT_NOW or
\* CONSIDER_PIT.
C32_TooLateToPitIsNoPit ==
    (/\ called
     /\ strat.total_laps - strat.current_lap <= 10
     /\ strat.current_lap >= 1
     /\ ~strat.safety_car
     /\ strat.cliff_risk <= 850
     /\ ~strat.result.undercut_threat)
        => strat.result.rec.recommendation =
               IF strat.tyre_age < 15 THEN "EXTEND_STINT" ELSE "STAY_OUT"

\* the place of the ideal lap the cliff risk asks for, within the window w
ideal_in_window(w, cliff_risk) ==
    IF cliff_risk > 700
    THEN w.min_lap <= w.ideal_lap /\ 3 * (w.ideal_lap - w.min_lap) <= w.max_lap - w.min_lap
    ELSE IF cliff_risk > 400
    THEN w.ideal_lap = w.min_lap + ((w.max_lap - w.min_lap) \div 2)
    ELSE w.ideal_lap = w.max_lap

\* C33: in a non-degenerate window the ideal lap lies in the first third of
\* [min_lap, max_lap] for cliff_risk > 0.7, is the midpoint
\* min_lap + (max_lap - min_lap) div 2 for 0.4 < cliff_risk <= 0.7, and is
\* max_lap otherwise.
C33_IdealLapPlacedWithinWindow ==
    (called /\ strat.total_laps - strat.current_lap > min_stint_laps)
        => ideal_in_window(strat.result.pit_window, strat.cliff_risk)

\* C35: a window computed for total_laps - current_lap > min_stint_laps
\* starts after the current lap, so for that window the tests
\* "min_lap <= current_lap <= max_lap" and "current_lap == ideal_lap" of
\* should_pit_now and evaluate_strategy are false.
C35_WindowStartsAfterCurrentLap ==
    (called /\ strat.total_laps - strat.current_lap > min_stint_laps)
        => \E w \in {strat.result.pit_window} :
              /\ w.min_lap >= strat.current_lap + 1
              /\ ~(w.min_lap <= strat.current_lap /\ strat.current_lap <= w.max_lap)
              /\ strat.current_lap # w.ideal_lap

\* C35: a window wider than one lap has been returned for a driver on old
\* tyres, whose window opens on the very next lap
C35_Witness ==
    /\ called
    /\ strat.total_laps - strat.current_lap > min_stint_laps
    /\ strat.tyre_age >= min_stint_laps
    /\ strat.result.pit_window.min_lap = strat.current_lap + 1
    /\ strat.result.pit_window.max_lap > strat.result.pit_window.min_lap

-----------------------------------------------------------------------------
(* One trial of the Monte Carlo simulation, lap by lap                     *)
(* (simulate_single_race and compare_strategies of monte_carlo.py).  The   *)
(* sampled scenario and the random.gauss draws are arguments of the call;  *)
(* every lap of a trial draws the same gauss value.                        *)
(***************************************************************************)
MaxRemainingLaps == 4

RaceScenario(has_safety_car, safety_car_lap) ==
    [has_safety_car |-> has_safety_car, safety_car_lap |-> safety_car_lap]

\* what sample_scenario can return; a virtual safety car changes no time
Scenarios(remaining_laps) ==
    {RaceScenario(FALSE, 0)} \cup {RaceScenario(TRUE, l) : l \in 0..(remaining_laps - 1)}

\* `if pit_lap and lap == pit_lap`
pits_on(pit_lap, lap) == Truthy(pit_lap) /\ lap = pit_lap

\* the lap time added at the end of the loop body: neutralised under the
\* safety car
lap_time_of(car, lap, scenario) ==
    IF scenario.has_safety_car /\ lap = scenario.safety_car_lap THEN car.pace
    ELSE car.pace + car.deg * lap

\* what a pit stop on this lap adds: pit_loss, less 60% under the safety car
pit_time_of(lap, pit_lap, pit_loss, scenario) ==
    IF ~pits_on(pit_lap, lap) THEN 0
    ELSE IF scenario.has_safety_car /\ lap = scenario.safety_car_lap
    THEN pit_loss - ((pit_loss * 6) \div 10)
    ELSE pit_loss

\* one pass of `for lap in range(remaining_laps)`: lap_time is computed with
\* the degradation the car enters the lap with, then the stop halves it
lap_of(car, lap, pit_lap, pit_loss, c) ==
    [pace |-> car.pace,
     deg |-> IF pits_on(pit_lap, lap) THEN car.deg \div 2 ELSE car.deg,
     time |-> car.time + pit_time_of(lap, pit_lap, pit_loss, c.scenario)
                  + lap_time_of(car, lap, c.scenario) + c.gauss]

\* the first n passes of the loop
RECURSIVE laps_of(_, _, _, _, _)
laps_of(car, n, pit_lap, pit_loss, c) ==
    IF n = 0 THEN car
    ELSE lap_of(laps_of(car, n - 1, pit_lap, pit_loss, c), n - 1, pit_lap, pit_loss, c)

\* random.randint(remaining_laps // 3, remaining_laps * 2 // 3) if remaining_laps > 15 else None
c_pit_lap(remaining_laps) ==
    IF remaining_laps > 15 THEN remaining_laps \div 3 ELSE None

\* the trial with the planned pit_lap: the driver's time and degradation
\* when the loop is left, and the position returned
trial(c, pit_lap) ==
    LET us == laps_of([pace |-> c.driver_pace, deg |-> c.driver_deg, time |-> 0],
                      c.remaining_laps, pit_lap, c.pit_loss, c)
        times == [i \in 1..Len(c.competitors) |->
                     laps_of([pace |-> c.competitors[i][1], deg |-> c.competitors[i][2],
                              time |-> 0],
                             c.remaining_laps, c_pit_lap(c.remaining_laps), c.pit_loss, c).time]
    IN  [pit_lap |-> pit_lap, our_time |-> us.time, driver_deg |-> us.deg,
         position |-> finish_position(us.time, times)]

\* later_lap = remaining_laps // 2 if remaining_laps > 20 else None
later_lap(remaining_laps) == IF remaining_laps > 20 THEN remaining_laps \div 2 ELSE None

\* compare_strategies: a trial of the "pit now" leg (pit_lap=0) and one of the
\* "stay out" leg
compare_strategies(c) ==
    [pit_now |-> trial(c, 0), stay_out |-> trial(c, later_lap(c.remaining_laps))]

TrialCalls ==
    {c \in [fn : {"simulate_single_race", "compare_strategies"},
            driver_pace : {90000}, driver_deg : {0, 100},
            competitors : {<<<<89900, 50>>>>},
            remaining_laps : 1..MaxRemainingLaps,
            pit_lap : {None} \cup (0..(MaxRemainingLaps - 1)),
            pit_loss : {22000},
            scenario : Scenarios(MaxRemainingLaps),
            gauss : {-200, 0, 200},
            done : {FALSE}, result : {NoCall}] :
        /\ c.pit_lap < c.remaining_laps
        /\ c.scenario.safety_car_lap < c.remaining_laps
        /\ c.fn = "compare_strategies" => c.pit_lap = None}

InitTrial ==
    /\ track_history = FALSE
    /\ outdated = FALSE
    /\ InitStore(Drivers, MaxLap)
    /\ InitIdle
    /\ strat = NoCall
    /\ deg = ModelManager
    /\ mc \in TrialCalls
    /\ wire = <<>>
    /\ san = NoCall
    /\ estimator = NoEstimator

\* simulate_single_race(..., pit_lap, pit_loss)
SimulateSingleRace ==
    /\ mc.fn = "simulate_single_race"
    /\ ~mc.done
    /\ mc' = [mc EXCEPT !.done = TRUE, !.result = trial(mc, mc.pit_lap)]
    /\ UNCHANGED <<estimator, heap, store_state, history, update_count, track_history, deg, wire, san,
                   clock, snap, snap_view, outdated, storeVars, sim, strat>>

\* compare_strategies(...)
CompareStrategies ==
    /\ mc.fn = "compare_strategies"
    /\ ~mc.done
    /\ mc' = [mc EXCEPT !.done = TRUE, !.result = compare_strategies(mc)]
    /\ UNCHANGED <<estimator, heap, store_state, history, update_count, track_history, deg, wire, san,
                   clock, snap, snap_view, outdated, storeVars, sim, strat>>

NextTrial == SimulateSingleRace \/ CompareStrategies

SpecTrial == InitTrial /\ [][NextTrial]_vars

-----------------------------------------------------------------------------
(* Properties of a trial                                                   *)
(***************************************************************************)

\* the trials the finished call has run
trials_run ==
    IF mc.fn = "simulate_single_race" /\ mc.done THEN {mc.result}
    ELSE IF mc.fn = "compare_strategies" /\ mc.done THEN {mc.result.pit_now, mc.result.stay_out}
    ELSE {}

\* the lap times of a race without a stop: pace + deg * lap each lap, the
\* safety-car lap at the bare pace, and the gauss draws
time_without_stop(c) ==
    race_time(c.driver_pace, c.driver_deg, c.remaining_laps)
        - (IF c.scenario.has_safety_car THEN c.driver_deg * c.scenario.safety_car_lap ELSE 0)
        + c.remaining_laps * c.gauss

\* the same with one stop on lap p: the pit loss once, 60% less on the
\* safety-car lap, and half the degradation on every lap after p
time_with_stop(c, p) ==
    race_time(c.driver_pace, c.driver_deg, p + 1)
        + race_time(c.driver_pace, c.driver_deg \div 2, c.remaining_laps)
        - race_time(c.driver_pace, c.driver_deg \div 2, p + 1)
        - (IF ~c.scenario.has_safety_car THEN 0
           ELSE IF c.scenario.safety_car_lap <= p THEN c.driver_deg * c.scenario.safety_car_lap
           ELSE (c.driver_deg \div 2) * c.scenario.safety_car_lap)
        + c.pit_loss
        - (IF c.scenario.has_safety_car /\ c.scenario.safety_car_lap = p
           THEN (c.pit_loss * 6) \div 10 ELSE 0)
        + c.remaining_laps * c.gauss

\* C34: in a trial with a planned pit_lap in 0..remaining_laps-1 the driver's
\* time holds the pit loss exactly once (60% less on the safety-car lap) and
\* the degradation is halved from that lap on; with pit_lap = None no pit
\* loss is added.  The "pit now" trial of compare_strategies (pit_lap = 0)
\* is such a trial with a stop.
C34_PlannedStopIsInTheTime ==
    \A t \in trials_run :
        IF t.pit_lap = None
        THEN t.our_time = time_without_stop(mc) /\ t.driver_deg = mc.driver_deg
        ELSE t.our_time = time_with_stop(mc, t.pit_lap) /\ t.driver_deg = mc.driver_deg \div 2

-----------------------------------------------------------------------------
(* Properties of the subscriber list                                       *)
(***************************************************************************)

\* how often the round of task t has called c
times_called(t, c) ==
    Cardinality({i \in DOMAIN round[t].called : round[t].called[i].cb = c})

\* C36: when an entry is removed from the subscriber list during a
\* notification round, every callback still subscribed and not yet called
\* in the round is still called exactly once in it.  No callback is added
\* after the two of the initial state, so a callback subscribed when a round
\* has ended was subscribed all through it, and the round has called it
\* exactly once.
C36_UnsubscribeSkipsNobody ==
    \A t \in Tasks : \A c \in {"c1", "c2"} :
        (pc[t] = "done" /\ InList(subscribers, c)) => times_called(t, c) = 1

-----------------------------------------------------------------------------
(* Properties of the stint number across batches *)

\* C37: from one applied batch to the next no driver's stint_number
\* decreases: a batch whose stint records for the driver are all of a lower
\* stint_number than the one stored leaves the driver's stint_number,
\* compound, stint_start_lap and tyre_age as they are.
C37_StintNumberNeverDecreases ==
    [][\A n \in DOMAIN state_view.drivers :
          /\ n \in DOMAIN state_view'.drivers
          /\ state_view'.drivers[n].stint_number
               >= state_view.drivers[n].stint_number]_vars

-----------------------------------------------------------------------------
(* Properties of the safety-car fields, under SpecControl *)

\* the text of the message names the virtual safety car
about_vsc(msg) ==
    \/ Contains(upper(msg.message), STR_VSC)
    \/ Contains(upper(msg.message), STR_VIRTUAL_SAFETY_CAR)

\* the step from the state to the next is the batch with the one message msg
message_applied(msg) ==
    \E r \in {apply_update_batch(heap, store_state,
                                  UpdateBatch(None, clock, <<>>, <<>>, <<>>, <<>>,
                                              <<>>, <<>>, <<msg>>), clock)} :
        /\ update_count' = update_count + 1
        /\ state_view' = View(r.h, r.s)

\* C38: a race-control message about the virtual safety car, deployed or
\* ending, leaves safety_car as it was, whatever its category: no single
\* message switches safety_car and virtual_safety_car on together and a
\* VSC-ending message does not clear an active safety car.
C38_VscMessageLeavesSafetyCar ==
    [][\A msg \in ControlMessages :
          (about_vsc(msg) /\ message_applied(msg))
              => state_view'.safety_car = state_view.safety_car]_vars

-----------------------------------------------------------------------------
(* Properties of the lap loop, under SpecLapLoop *)

\* the lap records of driver n in the batches applied so far
lap_records(n) ==
    {e \in (1..Len(log)) \X (1..Len(DriverOrder)) :
        /\ e[2] <= Len(log[e[1]].batch.laps)
        /\ log[e[1]].batch.laps[e[2]].driver_number = n}

\* C39: in the lap loop every completed lap of a driver is fed to the
\* driver's degradation estimator at most once: the estimator has been
\* updated no more often than the driver has lap records in the batches
\* applied, so a lap without a new record of the driver brings no update.
C39_LapFedAtMostOnce ==
    \A n \in Drivers : Len(calls_for(n)) <= Cardinality(lap_records(n))

-----------------------------------------------------------------------------
(* Properties of is_running, under SpecSim *)

\* SimulationService.is_running
is_running == sim.running

\* C40: is_running is true only while a loop task is alive: it is false
\* after stop() and also once the loop has processed the last lap or has
\* ended by itself.
C40_IsRunningOnlyWhileLoopAlive ==
    is_running => alive # {}

====
